---------------------------- MODULE Spec2Model ----------------------------
(***************************************************************************)
(* VW CD-changer emulator with a BT1036C Bluetooth module (ESP32).         *)
(*                                                                         *)
(* Part B, the Bluetooth-module driver (src/src/bt1036_at.cpp): the        *)
(* command queue, the single in-flight command with its timeout, the line  *)
(* parser and the connection state it drives.                              *)
(* Part A, the pulse decoder of the radio's DataOut line                   *)
(* (src/src/vw_cdc.cpp, vw_dataout_isr).                                   *)
(*                                                                         *)
(* Strings of the program that the code inspects (received lines) are      *)
(* sequences of one-character strings, so that trim, startsWith,           *)
(* substring, indexOf and toInt are computed as the Arduino String class   *)
(* computes them. Command texts are only stored and written out, and are   *)
(* TLA+ strings.                                                           *)
(***************************************************************************)
EXTENDS Integers, Sequences, FiniteSets, TLC

\* ------------------------------------------------------------------------
\* Program constants
\* ------------------------------------------------------------------------
CMD_QUEUE_SIZE == 10
CMD_TIMEOUT_MS == 2000
STAT_POLL_MS == 3000
VW_START_THRESHOLD == 3200
VW_HIGH_THRESHOLD == 1248
VW_LOW_THRESHOLD == 256
VW_SPURIOUS_US == 100
VW_PKTSIZE == 32
VW_CAPBUFFER_SIZE == 24
RAW_DUR_MAX == 60000

\* ------------------------------------------------------------------------
\* Bounds of the model
\* ------------------------------------------------------------------------
\* milliseconds by which the clock advances in one Tick
TickMs == 1000
\* Ticks, queuePush calls and received lines of Spec, and the lines that
\* wait in the UART receive buffer
MaxTicks == 6
MaxPush == 11
MaxRxLines == 4
MaxUart == 1
\* Ticks and received lines of SpecParse
MaxParseTicks == 1
MaxParseLines == 2
\* data bits the decoder shifts in, and pulses recorded in the diagnostic
\* trace that the poller has not yet fetched
MaxBits == 9
MaxRawPending == 1
\* data bits shifted in while the radio sends whole packets
MaxPacketBits == 34
\* packets the radio sends to the scanner
MaxPackets == 1
\* button packets the radio sends in a row
MaxRingPackets == 7
\* times the decoder is paused
MaxPauses == 1
\* guarded calls of loop(), and calls of queuePush while the web task enqueues
MaxLoopCalls == 3
\* byte streams received
MaxWire == 2
MaxTaskPush == 5
\* calls of the emulator's setters, and passes of cdc_loop in the Play phase
MaxCdcCalls == 3
MaxPlayTicks == 2

\* ------------------------------------------------------------------------
\* Clock arithmetic
\* ------------------------------------------------------------------------
\* millis() and micros() are uint32_t. The clocks of the model start at 0 and
\* stay far below 2^31, so a difference of two readings never wraps and
\* the unsigned difference is the plain one.
Sub32(a, b) == a - b

Add32(a, b) == a + b

Min(a, b) == IF a < b THEN a ELSE b

Max(a, b) == IF a < b THEN b ELSE a

\* ------------------------------------------------------------------------
\* Arduino String operations, on sequences of characters
\* ------------------------------------------------------------------------
\* isspace() for the characters a received line can hold
WhiteSpace == {" ", "\t"}

Digits == <<"0", "1", "2", "3", "4", "5", "6", "7", "8", "9">>

isDigit(c) == \E i \in 1..10 : Digits[i] = c

digitVal(c) == (CHOOSE i \in 1..10 : Digits[i] = c) - 1

RECURSIVE trimLeft(_)
trimLeft(s) ==
    IF s # <<>> /\ Head(s) \in WhiteSpace THEN trimLeft(Tail(s)) ELSE s

RECURSIVE trimRight(_)
trimRight(s) ==
    IF s # <<>> /\ s[Len(s)] \in WhiteSpace
    THEN trimRight(SubSeq(s, 1, Len(s) - 1))
    ELSE s

\* String::trim
\* variant: white space is removed at the front only
trim_front(s) == trimLeft(s)

trim(s) == trimRight(trimLeft(s))

\* String::startsWith
startsWith(s, p) == Len(s) >= Len(p) /\ SubSeq(s, 1, Len(p)) = p

\* String::substring(left, right), 0-based, right exclusive
substring2(s, left, right) ==
    LET lo == Min(left, right)
        hi == Max(left, right)
    IN  IF lo >= Len(s) THEN <<>> ELSE SubSeq(s, lo + 1, Min(hi, Len(s)))

\* String::substring(left)
substring(s, left) == substring2(s, left, Len(s))

\* String::indexOf(ch, from), 0-based, -1 when absent
indexOf(s, ch, from) ==
    LET hits == {i \in 0..(Len(s) - 1) : i >= from /\ s[i + 1] = ch}
    IN  IF hits = {} THEN -1 ELSE CHOOSE i \in hits : \A j \in hits : i <= j

RECURSIVE digitsValue(_, _)
digitsValue(s, acc) ==
    IF s # <<>> /\ isDigit(Head(s))
    THEN digitsValue(Tail(s), acc * 10 + digitVal(Head(s)))
    ELSE acc

\* String::toInt, that is atol: leading white space, an optional sign, then
\* digits up to the first other character; 0 when there is no digit
toInt(s) ==
    LET t == trimLeft(s)
    IN  IF t # <<>> /\ Head(t) = "-" THEN 0 - digitsValue(Tail(t), 0)
        ELSE IF t # <<>> /\ Head(t) = "+" THEN digitsValue(Tail(t), 0)
        ELSE digitsValue(t, 0)


\* ------------------------------------------------------------------------
\* Literals of the line parser (bt1036_at.cpp, handleLine)
\* ------------------------------------------------------------------------
S_OK == <<"O", "K">>

S_ERROR == <<"E", "R", "R", "O", "R">>

S_ERR == <<"E", "R", "R">>

P_A2DPSTAT == <<"+", "A", "2", "D", "P", "S", "T", "A", "T", "=">>

P_A2DPINFO == <<"+", "A", "2", "D", "P", "I", "N", "F", "O", "=">>

P_AVRCPSTAT == <<"+", "A", "V", "R", "C", "P", "S", "T", "A", "T", "=">>

P_BROWDATA == <<"+", "B", "R", "O", "W", "D", "A", "T", "A", "=">>

P_PLAYSTAT == <<"+", "P", "L", "A", "Y", "S", "T", "A", "T", "=">>

P_DEVSTAT == <<"+", "D", "E", "V", "S", "T", "A", "T", "=">>

P_NAME == <<"+", "N", "A", "M", "E", "=">>

P_LENAME == <<"+", "L", "E", "N", "A", "M", "E", "=">>

P_TRACKSTAT == <<"+", "T", "R", "A", "C", "K", "S", "T", "A", "T", "=">>

P_TRACKINFO == <<"+", "T", "R", "A", "C", "K", "I", "N", "F", "O", "=">>

\* ------------------------------------------------------------------------
\* Lines the module can send (the model's inputs)
\* ------------------------------------------------------------------------
\* terminal responses, among them "OK" padded with white space
TerminalLines ==
    { S_OK, <<" ">> \o S_OK \o <<" ">>, S_ERROR, S_ERR \o <<"=", "3">>,
      S_ERROR \o <<":", "5">> }

A2dpLines == { P_A2DPSTAT \o <<c>> : c \in {"0", "1", "2", "3", "4", "5", "6", "9"} }

PlayLines == { P_PLAYSTAT \o <<c>> : c \in {"0", "1", "2", "3", "4", "5", "7"} }

\* a negative and a two-digit code
OutOfRangeLines == { P_A2DPSTAT \o <<"-", "1">>, P_PLAYSTAT \o <<"1", "2">> }

DevLines == { P_DEVSTAT \o <<"3">>, P_DEVSTAT \o <<"2", "1">> }

\* status reports whose code is not a number
MalformedLines ==
    { P_A2DPSTAT \o <<"x">>, P_PLAYSTAT \o <<"x">>, P_DEVSTAT \o <<"x">> }

\* the payload "Song Title , Artist Name"
SongPayload ==
    <<"S", "o", "n", "g", " ", "T", "i", "t", "l", "e", " ", ",", " ",
      "A", "r", "t", "i", "s", "t", " ", "N", "a", "m", "e">>

TrackLines ==
    { P_TRACKSTAT \o <<"1", ",", "7", "5", ",", "2", "0", "0">>,
      P_TRACKSTAT \o <<"1", ",", "5">>,
      P_TRACKSTAT \o <<"1", ",", "1", "5", "3", "6", "0", ",", "2", "0", "0", "0", "0">>,
      P_TRACKINFO \o <<"S", " ", ",", " ", "A">>,
      P_TRACKINFO \o <<"S", ",", "A", ",", "B">>,
      P_TRACKINFO \o <<",", "A">>,
      P_TRACKINFO \o SongPayload }

InfoLines ==
    { P_NAME \o <<"V", "W">>, P_LENAME \o <<"V", "W">>,
      P_A2DPINFO \o <<"1">>, P_AVRCPSTAT \o <<"1">>, P_BROWDATA \o <<"x">> }

\* lines no branch of the parser recognises ("OKAY" is not "OK")
UnknownLines == { <<"O", "K", "A", "Y">>, <<"+", "V", "E", "R", "=", "1">>, <<" ">> }

StatusLines ==
    A2dpLines \cup PlayLines \cup OutOfRangeLines \cup DevLines \cup TrackLines
        \cup InfoLines \cup MalformedLines

AllLines == TerminalLines \cup StatusLines \cup UnknownLines

\* the lines of the queue-centred specification
QueueLines == { S_OK, S_ERROR }

\* ------------------------------------------------------------------------
\* State
\* ------------------------------------------------------------------------
VARIABLES
    \* bt1036_at.cpp
    bt,              \* the serial port pointer is set (bt1036_init was called)
    cmdQueue,        \* String cmdQueue[CMD_QUEUE_SIZE], indexed 0..9
    queueHead,
    queueTail,
    cmdInProgress,
    cmdTimestamp,
    btState,
    devStat,
    g_trackInfo,
    stateCb,         \* an observer is registered
    lastStatPollMs,
    \* vw_cdc.cpp, the displayed time that +TRACKSTAT updates
    g_playMinutes,
    g_playSeconds,
    g_lastBtTimeUpdate,
    btTimeSet,       \* cdc_setPlayTime was called
    \* environment
    now,             \* millis()
    uart,            \* complete lines waiting in the UART receive buffer
    serialOut,       \* commands written to the module, oldest first
    pc,              \* position of the BT task inside bt1036_loop
    \* observation
    accepted,        \* commands stored by queuePush, oldest first
    nPushCalls,      \* calls of queuePush
    nPopped,         \* entries removed by queuePop
    cbCount,         \* calls of the observer
    cbLast,          \* arguments of the observer's last call
    nTicks,
    nRx,
    \* vw_cdc.cpp, the pulse decoder
    g_dataOutPin,        \* -1 until cdc_init
    vw_capBuffer,        \* volatile uint8_t vw_capBuffer[24], indexed 0..23
    vw_capPtr,
    vw_capBusy,
    vw_capBit,
    vw_capBitPacket,
    vw_currentByte,
    vw_lastFallingEdge,
    vw_measuringLow,
    rawTrace,            \* g_rawBuf between g_rawTail and g_rawHead
    isrAttached,         \* vw_dataout_isr is attached to the pin's interrupt
    \* environment of the decoder
    lineLow,             \* level of the DataOut line
    nBits,               \* data bits shifted in so far
    freshStart,          \* a start marker was decoded since the handler was
                         \* attached last
    nPauses,             \* calls of cdc_pause(true)
    \* vw_cdc.cpp, the packet scanner
    vw_scanPtr,
    g_btnCb,             \* a button callback is registered
    btnEvents,           \* buttons passed to the callback, oldest first
    radioPkt,            \* bytes of the current packet the radio has yet to send
    nPackets,            \* packets the radio has started
    \* vw_cdc.cpp, the emulator
    g_status,
    g_modeByte,
    g_scanByte,
    g_prevMs,
    g_discLoad,
    cdcState,            \* cdc_loop's static state
    stateCounter,
    initStarted,
    lastSecond,
    spiOut,              \* the frame sent last
    nFrames,             \* frames sent in the emulator's current phase
    nCdcCalls,           \* calls of the emulator's setters
    nPlayTicks,          \* clock steps while the emulator plays
    \* main.cpp, the mutexes and the tasks
    g_btMutex,           \* the task that holds g_btMutex, or "none"
    g_cdcMutex,          \* the task that holds g_cdcMutex, or "none"
    loopPc,              \* position of loop() in a guarded call
    loopTail,            \* queueTail as queuePush read it in loop()
    webPc,               \* position of the web task in an API call
    webTail,             \* queueTail as queuePush read it in the web task
    nLoopCalls,          \* guarded calls loop() has started
    rxLine,              \* the characters of the line being received
    wire,                \* bytes the module has sent and the driver not read
    rxOverflow,          \* rxLine was emptied for its length since the last LF
    nWire,               \* byte streams the module has sent
    scanPc,              \* position of the scanner inside one turn of its loop
    scanGe               \* vw_capPtr >= vw_scanPtr as the scanner evaluated it

btVars ==
    << bt, cmdQueue, queueHead, queueTail, cmdInProgress, cmdTimestamp, btState,
       devStat, g_trackInfo, stateCb, lastStatPollMs, g_playMinutes,
       g_playSeconds, g_lastBtTimeUpdate, btTimeSet, now, uart, serialOut, pc, accepted,
       nPushCalls, nPopped, cbCount, cbLast, nTicks, nRx >>

decVars ==
    << g_dataOutPin, vw_capBuffer, vw_capPtr, vw_capBusy, vw_capBit,
       vw_capBitPacket, vw_currentByte, vw_lastFallingEdge, vw_measuringLow,
       rawTrace, isrAttached, lineLow, nBits, freshStart,
       nPauses >>

scanVars == << vw_scanPtr, g_btnCb, btnEvents, radioPkt, nPackets >>

emuVars ==
    << g_status, g_modeByte, g_scanByte, g_prevMs, g_discLoad, cdcState,
       stateCounter, initStarted, lastSecond, spiOut, nFrames, nCdcCalls,
       nPlayTicks >>

\* main.cpp: the two mutexes and the positions of the tasks that enqueue
taskVars ==
    << g_btMutex, g_cdcMutex, loopPc, loopTail, webPc, webTail, nLoopCalls >>

\* bt1036_at.cpp: the line reader of bt1036_loop
rxVars == <<rxLine, wire, rxOverflow, nWire>>

\* vw_cdc.cpp: the scanner's position and the value it holds in a register
raceVars == <<scanPc, scanGe>>

vars == <<btVars, decVars, scanVars, emuVars, taskVars, rxVars, raceVars>>

\* what the operations of one component leave alone
notBtVars == <<decVars, scanVars, emuVars, taskVars, rxVars, raceVars>>

notDecVars == <<btVars, scanVars, emuVars, taskVars, rxVars, raceVars>>

BTConnState == {"DISCONNECTED", "CONNECTING", "CONNECTED_IDLE", "PLAYING", "PAUSED"}

NoState == "none"

EmptyStr == <<>>

\* ------------------------------------------------------------------------
\* Queue helpers
\* ------------------------------------------------------------------------
queueIsEmpty(head, tail) == head = tail

\* variant: the ring is never reported full
queueIsFull_never(head, tail) == FALSE

queueIsFull(head, tail) == ((tail + 1) % CMD_QUEUE_SIZE) % 256 = head

\* the queue as a value: the ring, its two indices and the observation of
\* what queuePush stored
Queue == [buf |-> cmdQueue, head |-> queueHead, tail |-> queueTail,
          acc |-> accepted, calls |-> nPushCalls]

queuePush(q, cmd) ==
    IF queueIsFull(q.head, q.tail)
    THEN [q EXCEPT !.calls = @ + 1]
    ELSE [q EXCEPT !.buf[q.tail] = cmd,
                   !.tail = (q.tail + 1) % CMD_QUEUE_SIZE,
                   !.acc = Append(@, cmd),
                   !.calls = @ + 1]

queueFront(buf, head, tail) == IF queueIsEmpty(head, tail) THEN "" ELSE buf[head]

\* the head index after queuePop
\* variant: the head index is not advanced
queuePop_stay(head, tail) == head

queuePop(head, tail) ==
    IF ~queueIsEmpty(head, tail) THEN (head + 1) % CMD_QUEUE_SIZE ELSE head

\* the queue becomes q
SetQueue(q) ==
    /\ cmdQueue' = q.buf
    /\ queueTail' = q.tail
    /\ accepted' = q.acc
    /\ nPushCalls' = q.calls

\* number of queued commands, and the queued commands from head to tail
QLen == (queueTail - queueHead + CMD_QUEUE_SIZE) % CMD_QUEUE_SIZE

QueueSeq == [i \in 1..QLen |-> cmdQueue[(queueHead + i - 1) % CMD_QUEUE_SIZE]]

\* the in-flight command is closed: cmdInProgress = false; queuePop()
\* variant: the slot is cleared and the entry stays queued
CloseInFlight_keep ==
    /\ cmdInProgress' = FALSE
    /\ UNCHANGED <<queueHead, nPopped>>

CloseInFlight ==
    /\ cmdInProgress' = FALSE
    /\ queueHead' = queuePop(queueHead, queueTail)
    /\ nPopped' = IF queuePop(queueHead, queueTail) # queueHead
                  THEN nPopped + 1 ELSE nPopped


\* ------------------------------------------------------------------------
\* Connection state and its observer
\* ------------------------------------------------------------------------
\* setBtState: nothing happens when the state is the current one; otherwise
\* the state changes and the observer, when registered, is called with
\* (old, new)
\* variant: the observer is called without the test for an actual change
setBtState_always(newState) ==
    /\ btState' = newState
    /\ IF stateCb
       THEN /\ cbCount' = cbCount + 1
            /\ cbLast' = <<btState, newState>>
       ELSE UNCHANGED <<cbCount, cbLast>>

setBtState(newState) ==
    IF newState = btState
    THEN UNCHANGED <<btState, cbCount, cbLast>>
    ELSE /\ btState' = newState
         /\ IF stateCb
            THEN /\ cbCount' = cbCount + 1
                 /\ cbLast' = <<btState, newState>>
            ELSE UNCHANGED <<cbCount, cbLast>>

\* variant: the codes 4 and 5 exchanged
A2dpStatState_swapped(val) ==
    CASE val = 0 \/ val = 1 -> "DISCONNECTED"
      [] val = 2 -> "CONNECTING"
      [] val = 3 -> "CONNECTED_IDLE"
      [] val = 4 -> "PLAYING"
      [] val = 5 -> "PAUSED"
      [] OTHER -> "none"

\* switch (val) of the +A2DPSTAT branch
A2dpStatState(val) ==
    CASE val = 0 \/ val = 1 -> "DISCONNECTED"
      [] val = 2 -> "CONNECTING"
      [] val = 3 -> "CONNECTED_IDLE"
      [] val = 4 -> "PAUSED"
      [] val = 5 -> "PLAYING"
      [] OTHER -> NoState

\* switch (val) of the +PLAYSTAT branch
PlayStatState(val) ==
    CASE val = 0 -> "CONNECTED_IDLE"
      [] val = 1 -> "PLAYING"
      [] val = 2 -> "PAUSED"
      [] val = 3 \/ val = 4 -> "PLAYING"
      [] OTHER -> NoState

\* bit k of a non-negative int
BitSet(val, k) == (val \div (2 ^ k)) % 2 = 1

updateDevStat(val) ==
    [ powerOn        |-> BitSet(val, 0),
      brDiscoverable |-> BitSet(val, 1),
      bleAdvertising |-> BitSet(val, 2),
      brScanning     |-> BitSet(val, 3),
      bleScanning    |-> BitSet(val, 4) ]

\* cdc_setPlayTime(minutes, seconds) of vw_cdc.cpp
\* variant: the arguments are stored as they come
cdc_setPlayTime_asGiven(minutes, seconds) ==
    /\ g_playMinutes' = minutes
    /\ g_playSeconds' = seconds
    /\ g_lastBtTimeUpdate' = now
    /\ btTimeSet' = TRUE

cdc_setPlayTime(minutes, seconds) ==
    /\ g_playMinutes' = IF minutes > 99 THEN 99 ELSE minutes
    /\ g_playSeconds' = IF seconds > 59 THEN 59 ELSE seconds
    /\ g_lastBtTimeUpdate' = now
    /\ btTimeSet' = TRUE

\* the +TRACKSTAT branch: state,elapsed,total
handleTrackStat(line) ==
    LET params == substring(line, 11)
        comma1 == indexOf(params, ",", 0)
        comma2 == indexOf(params, ",", comma1 + 1)
        elapsed == toInt(substring2(params, comma1 + 1, comma2))
        total == toInt(substring(params, comma2 + 1))
    IN  IF comma1 > 0 /\ comma2 > comma1
        THEN /\ g_trackInfo' = [g_trackInfo EXCEPT !.elapsedSec = elapsed,
                                                    !.totalSec = total,
                                                    !.valid = TRUE]
             /\ cdc_setPlayTime((elapsed \div 60) % 256, (elapsed % 60) % 256)
        ELSE UNCHANGED <<g_trackInfo, g_playMinutes, g_playSeconds,
                         g_lastBtTimeUpdate, btTimeSet>>

\* the +TRACKINFO branch: title,artist,album
handleTrackInfo(line) ==
    LET params == substring(line, 11)
        comma1 == indexOf(params, ",", 0)
        comma2 == indexOf(params, ",", comma1 + 1)
    IN  IF comma1 > 0
        THEN g_trackInfo' =
                 IF comma2 > comma1
                 THEN [g_trackInfo EXCEPT
                          !.title = trim(substring2(params, 0, comma1)),
                          !.artist = trim(substring2(params, comma1 + 1, comma2)),
                          !.album = trim(substring(params, comma2 + 1)),
                          !.valid = TRUE]
                 ELSE [g_trackInfo EXCEPT
                          !.title = trim(substring2(params, 0, comma1)),
                          !.artist = trim(substring(params, comma1 + 1)),
                          !.album = EmptyStr,
                          !.valid = TRUE]
        ELSE UNCHANGED g_trackInfo

\* what a line is to the parser, in the order of handleLine's tests
IsOk(line) == line = S_OK

\* variant: only the long prefix is a failure
IsError_long(line) == startsWith(line, S_ERROR)

IsError(line) == startsWith(line, S_ERROR) \/ startsWith(line, S_ERR)

\* variant: every line closes the command in flight
IsTerminal_any(line) == TRUE

IsTerminal(line) == IsOk(line) \/ IsError(line)

\* handleLine(lineIn): the variables of the driver after one received line
handleLine(lineIn) ==
    LET line == trim(lineIn)
        closes == lineIn # EmptyStr /\ IsTerminal(line) /\ cmdInProgress
        isA2dp == lineIn # EmptyStr /\ ~IsTerminal(line)
                      /\ startsWith(line, P_A2DPSTAT)
        early == IsTerminal(line) \/ startsWith(line, P_A2DPSTAT)
                     \/ startsWith(line, P_A2DPINFO)
                     \/ startsWith(line, P_AVRCPSTAT)
                     \/ startsWith(line, P_BROWDATA)
        isPlay == lineIn # EmptyStr /\ ~early /\ startsWith(line, P_PLAYSTAT)
        early2 == early \/ startsWith(line, P_PLAYSTAT)
        isDev == lineIn # EmptyStr /\ ~early2 /\ startsWith(line, P_DEVSTAT)
        early3 == early2 \/ startsWith(line, P_DEVSTAT)
                     \/ startsWith(line, P_NAME) \/ startsWith(line, P_LENAME)
        isTrackStat == lineIn # EmptyStr /\ ~early3
                           /\ startsWith(line, P_TRACKSTAT)
        isTrackInfo == lineIn # EmptyStr /\ ~early3
                           /\ ~startsWith(line, P_TRACKSTAT)
                           /\ startsWith(line, P_TRACKINFO)
        newState == IF isA2dp THEN A2dpStatState(toInt(substring(line, 10)))
                    ELSE IF isPlay THEN PlayStatState(toInt(substring(line, 10)))
                    ELSE NoState
    IN  /\ IF closes
           THEN CloseInFlight
           ELSE UNCHANGED <<cmdInProgress, queueHead, nPopped>>
        /\ IF newState # NoState
           THEN setBtState(newState)
           ELSE UNCHANGED <<btState, cbCount, cbLast>>
        /\ devStat' = IF isDev THEN updateDevStat(toInt(substring(line, 9)))
                      ELSE devStat
        /\ IF isTrackStat THEN handleTrackStat(line)
           ELSE IF isTrackInfo
                THEN /\ handleTrackInfo(line)
                     /\ UNCHANGED <<g_playMinutes, g_playSeconds,
                                    g_lastBtTimeUpdate, btTimeSet>>
                ELSE UNCHANGED <<g_trackInfo, g_playMinutes, g_playSeconds,
                                 g_lastBtTimeUpdate, btTimeSet>>
        /\ UNCHANGED <<cmdQueue, queueTail, accepted, nPushCalls, cmdTimestamp,
                       serialOut, lastStatPollMs>>

\* sendCommandNow(queueFront()): the command is written to the module and
\* becomes the in-flight command
sendCommandNow(cmd) ==
    IF ~bt
    THEN UNCHANGED <<serialOut, cmdInProgress, cmdTimestamp>>
    ELSE /\ serialOut' = Append(serialOut, cmd)
         /\ cmdInProgress' = TRUE
         /\ cmdTimestamp' = now


\* ------------------------------------------------------------------------
\* Initial state: the static initialisers
\* ------------------------------------------------------------------------
InitBt ==
    /\ bt = FALSE
    /\ cmdQueue = [i \in 0..(CMD_QUEUE_SIZE - 1) |-> ""]
    /\ queueHead = 0
    /\ queueTail = 0
    /\ cmdInProgress = FALSE
    /\ cmdTimestamp = 0
    /\ btState = "DISCONNECTED"
    /\ devStat = updateDevStat(0)
    /\ g_trackInfo = [elapsedSec |-> 0, totalSec |-> 0, title |-> EmptyStr,
                      artist |-> EmptyStr, album |-> EmptyStr, valid |-> FALSE]
    /\ stateCb = FALSE
    /\ lastStatPollMs = 0
    /\ g_playMinutes = 0
    /\ g_playSeconds = 0
    /\ g_lastBtTimeUpdate = 0
    /\ btTimeSet = FALSE
    /\ now = 0
    /\ uart = <<>>
    /\ serialOut = <<>>
    /\ pc = "idle"
    /\ accepted = <<>>
    /\ nPushCalls = 0
    /\ nPopped = 0
    /\ cbCount = 0
    /\ cbLast = <<>>
    /\ nTicks = 0
    /\ nRx = 0

\* ------------------------------------------------------------------------
\* Operations of the driver
\* ------------------------------------------------------------------------
\* bt1036_init, called once by setup() before the tasks are started
bt1036_init ==
    /\ ~bt
    /\ bt' = TRUE
    /\ queueHead' = 0
    /\ cmdInProgress' = FALSE
    /\ setBtState("DISCONNECTED")
    /\ SetQueue(queuePush(queuePush(queuePush(
           [Queue EXCEPT !.head = 0, !.tail = 0], "AT"), "AT+VER"), "AT+ADDR"))
    /\ lastStatPollMs' = now
    /\ UNCHANGED notBtVars
    /\ UNCHANGED <<cmdTimestamp, devStat, g_trackInfo, stateCb, g_playMinutes,
                   g_playSeconds, g_lastBtTimeUpdate, btTimeSet, now, uart, serialOut, pc,
                   nPopped, nTicks, nRx>>

\* bt1036_setStateCallback(cb): cb is a function or nullptr
bt1036_setStateCallback ==
    /\ pc = "idle"
    /\ stateCb' = ~stateCb
    /\ UNCHANGED notBtVars
    /\ UNCHANGED <<bt, cmdQueue, queueHead, queueTail, cmdInProgress,
                   cmdTimestamp, btState, devStat, g_trackInfo, lastStatPollMs,
                   g_playMinutes, g_playSeconds, g_lastBtTimeUpdate, btTimeSet, now, uart,
                   serialOut, pc, accepted, nPushCalls, nPopped, cbCount,
                   cbLast, nTicks, nRx>>

\* what an API call that only enqueues leaves alone
EnqueueFrame ==
    /\ UNCHANGED notBtVars
    /\ UNCHANGED <<bt, queueHead, cmdInProgress, cmdTimestamp, btState, devStat,
                   g_trackInfo, stateCb, lastStatPollMs, g_playMinutes,
                   g_playSeconds, g_lastBtTimeUpdate, btTimeSet, now, uart, serialOut, pc,
                   nPopped, cbCount, cbLast, nTicks, nRx>>

\* bt1036_play
bt1036_play ==
    /\ bt /\ pc = "idle"
    /\ nPushCalls + 1 <= MaxPush
    /\ SetQueue(queuePush(Queue, "AT+PLAY"))
    /\ EnqueueFrame

\* bt1036_enterPairingMode: three commands
bt1036_enterPairingMode ==
    /\ bt /\ pc = "idle"
    /\ nPushCalls + 3 <= MaxPush
    /\ SetQueue(queuePush(queuePush(queuePush(Queue,
           "AT+A2DPDISC"), "AT+HFPDISC"), "AT+SCAN=1"))
    /\ EnqueueFrame

\* ------------------------------------------------------------------------
\* bt1036_loop, one pass of the BT task, in the order of its statements
\* ------------------------------------------------------------------------
\* while (bt->available()): one complete line goes to handleLine
bt1036_loop_rx ==
    /\ bt /\ pc \in {"idle", "rx"}
    /\ uart # <<>>
    /\ handleLine(Head(uart))
    /\ uart' = Tail(uart)
    /\ pc' = "rx"
    /\ UNCHANGED notBtVars
    /\ UNCHANGED <<bt, stateCb, now, nTicks, nRx>>

\* variant: the operands of the subtraction exchanged
TimedOut_swapped == cmdInProgress /\ Sub32(cmdTimestamp, now) > CMD_TIMEOUT_MS

\* the command timeout
\* variant: the loop has no timeout
TimedOut_never == FALSE

TimedOut == cmdInProgress /\ Sub32(now, cmdTimestamp) > CMD_TIMEOUT_MS

bt1036_loop_timeout ==
    /\ bt /\ pc \in {"idle", "rx"}
    /\ uart = <<>>
    /\ IF TimedOut
       THEN CloseInFlight
       ELSE UNCHANGED <<cmdInProgress, queueHead, nPopped>>
    /\ pc' = "send"
    /\ UNCHANGED notBtVars
    /\ UNCHANGED <<bt, cmdQueue, queueTail, cmdTimestamp, btState, devStat,
                   g_trackInfo, stateCb, lastStatPollMs, g_playMinutes,
                   g_playSeconds, g_lastBtTimeUpdate, btTimeSet, now, uart, serialOut,
                   accepted, nPushCalls, cbCount, cbLast, nTicks, nRx>>

\* variant: the in-flight slot is not tested
CanSend_unguarded == ~queueIsEmpty(queueHead, queueTail)

\* the next command is sent
\* variant: the send step does not look at the queue
CanSend_anyQueue == ~cmdInProgress

CanSend == ~cmdInProgress /\ ~queueIsEmpty(queueHead, queueTail)

bt1036_loop_send ==
    /\ pc = "send"
    /\ IF CanSend
       THEN sendCommandNow(queueFront(cmdQueue, queueHead, queueTail))
       ELSE UNCHANGED <<serialOut, cmdInProgress, cmdTimestamp>>
    /\ pc' = "poll"
    /\ UNCHANGED notBtVars
    /\ UNCHANGED <<bt, cmdQueue, queueHead, queueTail, btState, devStat,
                   g_trackInfo, stateCb, lastStatPollMs, g_playMinutes,
                   g_playSeconds, g_lastBtTimeUpdate, btTimeSet, now, uart, accepted,
                   nPushCalls, nPopped, cbCount, cbLast, nTicks, nRx>>

\* the background status poll
\* variant: the poller does not look at the in-flight slot
PollDue_busy == Sub32(now, lastStatPollMs) > STAT_POLL_MS

PollDue == ~cmdInProgress /\ Sub32(now, lastStatPollMs) > STAT_POLL_MS

bt1036_loop_poll ==
    /\ pc = "poll"
    /\ IF PollDue
       THEN /\ SetQueue(queuePush(queuePush(Queue, "AT+A2DPSTAT"), "AT+DEVSTAT"))
            /\ lastStatPollMs' = now
       ELSE UNCHANGED <<cmdQueue, queueTail, accepted, nPushCalls,
                        lastStatPollMs>>
    /\ pc' = "idle"
    /\ UNCHANGED notBtVars
    /\ UNCHANGED <<bt, queueHead, cmdInProgress, cmdTimestamp, btState, devStat,
                   g_trackInfo, stateCb, g_playMinutes, g_playSeconds,
                   g_lastBtTimeUpdate, btTimeSet, now, uart, serialOut, nPopped, cbCount,
                   cbLast, nTicks, nRx>>

\* ------------------------------------------------------------------------
\* Environment
\* ------------------------------------------------------------------------
\* the module sends a line; it waits in the UART receive buffer
UartRx(lines, maxLines, maxUart) ==
    /\ bt /\ pc = "idle"
    /\ nRx < maxLines
    /\ Len(uart) < maxUart
    /\ \E line \in lines : uart' = Append(uart, line)
    /\ nRx' = nRx + 1
    /\ UNCHANGED notBtVars
    /\ UNCHANGED <<bt, cmdQueue, queueHead, queueTail, cmdInProgress,
                   cmdTimestamp, btState, devStat, g_trackInfo, stateCb,
                   lastStatPollMs, g_playMinutes, g_playSeconds,
                   g_lastBtTimeUpdate, btTimeSet, now, serialOut, pc, accepted, nPushCalls,
                   nPopped, cbCount, cbLast, nTicks>>

\* time passes between two passes of the loop
TickUpTo(maxTicks) ==
    /\ bt /\ pc = "idle"
    /\ nTicks < maxTicks
    /\ now' = Add32(now, TickMs)
    /\ nTicks' = nTicks + 1
    /\ UNCHANGED notBtVars
    /\ UNCHANGED <<bt, cmdQueue, queueHead, queueTail, cmdInProgress,
                   cmdTimestamp, btState, devStat, g_trackInfo, stateCb,
                   lastStatPollMs, g_playMinutes, g_playSeconds,
                   g_lastBtTimeUpdate, btTimeSet, uart, serialOut, pc, accepted,
                   nPushCalls, nPopped, cbCount, cbLast, nRx>>

UartRxQueue == UartRx(QueueLines, MaxRxLines, MaxUart)

UartRxAny == UartRx(AllLines, MaxParseLines, MaxUart)

Tick == TickUpTo(MaxTicks)

TickParse == TickUpTo(MaxParseTicks)

\* ------------------------------------------------------------------------
\* The pulse decoder of the DataOut line (vw_cdc.cpp)
\* ------------------------------------------------------------------------
\* low-pulse durations in microseconds, at and around the thresholds
Durations == {99, 100, 255, 256, 1247, 1248, 3199, 3200, 70000}

\* micros() at a falling edge
EdgeTimes == {1000, 90000}

Byte == 0..255

InitDec ==
    /\ g_dataOutPin = -1
    /\ vw_capBuffer = [i \in 0..(VW_CAPBUFFER_SIZE - 1) |-> 0]
    /\ vw_capPtr = 0
    /\ vw_capBusy = FALSE
    /\ vw_capBit = 0
    /\ vw_capBitPacket = 0
    /\ vw_currentByte = 0
    /\ vw_lastFallingEdge = 0
    /\ vw_measuringLow = FALSE
    /\ rawTrace = <<>>
    /\ isrAttached = FALSE
    /\ lineLow = FALSE
    /\ nBits = 0
    /\ freshStart = FALSE
    /\ nPauses = 0

\* the radio drives the line while no interrupt handler is attached
line_edge_unattached ==
    /\ ~isrAttached
    /\ lineLow' = ~lineLow
    /\ UNCHANGED <<g_dataOutPin, vw_capBuffer, vw_capPtr, vw_capBusy, vw_capBit,
                   vw_capBitPacket, vw_currentByte, vw_lastFallingEdge,
                   vw_measuringLow, rawTrace, isrAttached, nBits, freshStart,
                   nPauses>>
    /\ UNCHANGED notDecVars

\* cdc_init(..., necPin, cb): the decoder is reset and the interrupt attached
cdc_init ==
    /\ g_dataOutPin < 0
    /\ g_dataOutPin' = 4
    /\ vw_capPtr' = 0
    /\ vw_capBusy' = FALSE
    /\ vw_capBit' = 8
    /\ vw_capBitPacket' = 0
    /\ vw_currentByte' = 0
    /\ vw_measuringLow' = FALSE
    /\ vw_lastFallingEdge' = 0
    /\ isrAttached' = TRUE
    /\ freshStart' = FALSE
    /\ UNCHANGED nPauses
    /\ g_btnCb' = TRUE
    /\ g_status' = [g_status EXCEPT !.disc = 1, !.track = 1, !.state = "PLAYING"]
    /\ vw_scanPtr' = 0
    /\ g_prevMs' = now
    /\ UNCHANGED <<vw_capBuffer, rawTrace, lineLow, nBits>>
    /\ UNCHANGED <<btnEvents, radioPkt, nPackets>>
    /\ UNCHANGED <<g_modeByte, g_scanByte, g_discLoad, cdcState, stateCounter,
                   initStarted, lastSecond, spiOut, nFrames, nCdcCalls,
                   nPlayTicks>>
    /\ UNCHANGED <<btVars, taskVars, rxVars, raceVars>>

\* cdc_pause(pause): the interrupt handler is detached or attached again
cdc_pause ==
    /\ g_dataOutPin >= 0
    /\ \E pause \in BOOLEAN :
          /\ isrAttached' = ~pause
          /\ freshStart' = IF ~pause /\ ~isrAttached THEN FALSE ELSE freshStart
          /\ pause => nPauses < MaxPauses
          /\ nPauses' = IF pause THEN nPauses + 1 ELSE nPauses
    /\ UNCHANGED <<g_dataOutPin, vw_capBuffer, vw_capPtr, vw_capBusy, vw_capBit,
                   vw_capBitPacket, vw_currentByte, vw_lastFallingEdge,
                   vw_measuringLow, rawTrace, lineLow, nBits>>
    /\ UNCHANGED notDecVars

\* log_raw_pulse(dur)
log_raw_pulse(dur) == Append(rawTrace, IF dur > RAW_DUR_MAX THEN RAW_DUR_MAX ELSE dur)

\* variant: a pulse of exactly the start threshold is not yet a start marker
PulseClass_startAbove(lowDuration) ==
    IF lowDuration < VW_SPURIOUS_US THEN "noise"
    ELSE IF lowDuration < VW_LOW_THRESHOLD THEN "noise"
    ELSE IF lowDuration > VW_START_THRESHOLD THEN "start"
    ELSE IF lowDuration >= VW_HIGH_THRESHOLD THEN "one"
    ELSE "zero"

\* variant: the thresholds themselves fall into the class below
PulseClass_strict(lowDuration) ==
    IF lowDuration < VW_SPURIOUS_US THEN "noise"
    ELSE IF lowDuration <= VW_LOW_THRESHOLD THEN "noise"
    ELSE IF lowDuration > VW_START_THRESHOLD THEN "start"
    ELSE IF lowDuration > VW_HIGH_THRESHOLD THEN "one"
    ELSE "zero"

\* the class of a low pulse, in the order of the interrupt handler's tests
PulseClass(lowDuration) ==
    IF lowDuration < VW_SPURIOUS_US THEN "noise"
    ELSE IF lowDuration < VW_LOW_THRESHOLD THEN "noise"
    ELSE IF lowDuration >= VW_START_THRESHOLD THEN "start"
    ELSE IF lowDuration >= VW_HIGH_THRESHOLD THEN "one"
    ELSE "zero"

\* variant: the new bit enters at the most significant end
ShiftBit_lsbFirst(bitValue) ==
    LET byte == (vw_currentByte \div 2) + (128 * bitValue)
        capBit == vw_capBit - 1
        capBitPacket == vw_capBitPacket - 1
    IN  /\ IF capBit = 0
           THEN /\ vw_capBuffer' = [vw_capBuffer EXCEPT ![vw_capPtr] = byte]
                /\ vw_capPtr' = (vw_capPtr + 1) % VW_CAPBUFFER_SIZE
                /\ vw_capBit' = 8
                /\ vw_currentByte' = 0
           ELSE /\ UNCHANGED <<vw_capBuffer, vw_capPtr>>
                /\ vw_capBit' = capBit
                /\ vw_currentByte' = byte
        /\ vw_capBitPacket' = capBitPacket
        /\ vw_capBusy' = IF capBitPacket = 0 THEN FALSE ELSE vw_capBusy
        /\ nBits' = nBits + 1

\* the decoder's variables after a data bit
ShiftBit(bitValue) ==
    LET byte == ((vw_currentByte * 2) % 256) + bitValue
        capBit == vw_capBit - 1
        capBitPacket == vw_capBitPacket - 1
    IN  /\ IF capBit = 0
           THEN /\ vw_capBuffer' = [vw_capBuffer EXCEPT ![vw_capPtr] = byte]
                /\ vw_capPtr' = (vw_capPtr + 1) % VW_CAPBUFFER_SIZE
                /\ vw_capBit' = 8
                /\ vw_currentByte' = 0
           ELSE /\ UNCHANGED <<vw_capBuffer, vw_capPtr>>
                /\ vw_capBit' = capBit
                /\ vw_currentByte' = byte
        /\ vw_capBitPacket' = capBitPacket
        /\ vw_capBusy' = IF capBitPacket = 0 THEN FALSE ELSE vw_capBusy
        /\ nBits' = nBits + 1

\* vw_dataout_isr on a falling edge, read at time t
vw_dataout_isr_falling ==
    /\ g_dataOutPin >= 0
    /\ isrAttached
    /\ ~lineLow
    /\ lineLow' = TRUE
    /\ \E t \in EdgeTimes : vw_lastFallingEdge' = t
    /\ vw_measuringLow' = TRUE
    /\ UNCHANGED <<g_dataOutPin, vw_capBuffer, vw_capPtr, vw_capBusy, vw_capBit,
                   vw_capBitPacket, vw_currentByte, rawTrace, isrAttached, nBits,
                   freshStart, nPauses>>
    /\ UNCHANGED notDecVars

\* the rising edge of a pulse whose low time was d
RisingEffect(d) ==
    LET nowUs == Add32(vw_lastFallingEdge, d)
        lowDuration == Sub32(nowUs, vw_lastFallingEdge)
        class == PulseClass(lowDuration)
    IN  IF ~vw_measuringLow
        THEN UNCHANGED <<vw_capBuffer, vw_capPtr, vw_capBusy, vw_capBit,
                         vw_capBitPacket, vw_currentByte, vw_measuringLow,
                         rawTrace, nBits>>
        ELSE /\ vw_measuringLow' = FALSE
             /\ rawTrace' = log_raw_pulse(lowDuration)
             /\ IF class = "noise"
                THEN UNCHANGED <<vw_capBuffer, vw_capPtr, vw_capBusy, vw_capBit,
                                 vw_capBitPacket, vw_currentByte, nBits>>
                ELSE IF class = "start"
                THEN /\ vw_capBusy' = TRUE
                     /\ vw_capBitPacket' = VW_PKTSIZE
                     /\ vw_capBit' = 8
                     /\ vw_currentByte' = 0
                     /\ UNCHANGED <<vw_capBuffer, vw_capPtr, nBits>>
                ELSE IF ~vw_capBusy \/ vw_capBitPacket = 0
                THEN UNCHANGED <<vw_capBuffer, vw_capPtr, vw_capBusy, vw_capBit,
                                 vw_capBitPacket, vw_currentByte, nBits>>
                ELSE ShiftBit(IF class = "one" THEN 1 ELSE 0)

\* vw_dataout_isr on a rising edge
vw_dataout_isr_rising ==
    /\ g_dataOutPin >= 0
    /\ isrAttached
    /\ lineLow
    /\ lineLow' = FALSE
    /\ Len(rawTrace) < MaxRawPending
    /\ nBits < MaxBits
    /\ \E d \in Durations :
          /\ RisingEffect(d)
          /\ freshStart' = (freshStart \/ (vw_measuringLow /\ PulseClass(d) = "start"))
          /\ UNCHANGED nPauses
    /\ UNCHANGED <<g_dataOutPin, vw_lastFallingEdge, isrAttached>>
    /\ UNCHANGED notDecVars

\* the packet 53 2C AA 55 as the radio sends it, each byte from its most
\* significant bit on
RefPacket == <<83, 44, 170, 85>>

\* bit k (from 0) of the packet on the wire
RefBit(k) == (RefPacket[(k \div 8) + 1] \div (2 ^ (7 - (k % 8)))) % 2

\* the low times the radio can send next: a start marker at any time, inside
\* a packet the next bit of RefPacket, outside a packet either bit
PacketDurations ==
    IF vw_capBusy /\ vw_capBitPacket > 0
    THEN { VW_START_THRESHOLD,
           IF RefBit(VW_PKTSIZE - vw_capBitPacket) = 1
           THEN VW_HIGH_THRESHOLD ELSE VW_LOW_THRESHOLD }
    ELSE { VW_START_THRESHOLD, VW_HIGH_THRESHOLD, VW_LOW_THRESHOLD }

\* vw_dataout_isr on a rising edge while the radio sends RefPacket
vw_dataout_isr_rising_packet ==
    /\ g_dataOutPin >= 0
    /\ isrAttached
    /\ lineLow
    /\ lineLow' = FALSE
    /\ Len(rawTrace) < MaxRawPending
    /\ nBits < MaxPacketBits
    /\ \E d \in PacketDurations :
          /\ RisingEffect(d)
          /\ freshStart' = (freshStart \/ (vw_measuringLow /\ PulseClass(d) = "start"))
          /\ UNCHANGED nPauses
    /\ UNCHANGED <<g_dataOutPin, vw_lastFallingEdge, isrAttached>>
    /\ UNCHANGED notDecVars

\* processRawLog: the poller sends the recorded durations to the log
processRawLog ==
    /\ g_dataOutPin >= 0
    /\ rawTrace # <<>>
    /\ rawTrace' = <<>>
    /\ UNCHANGED <<g_dataOutPin, vw_capBuffer, vw_capPtr, vw_capBusy, vw_capBit,
                   vw_capBitPacket, vw_currentByte, vw_lastFallingEdge,
                   vw_measuringLow, isrAttached, lineLow, nBits, freshStart,
                   nPauses>>
    /\ UNCHANGED notDecVars

\* ------------------------------------------------------------------------
\* The packet scanner (vw_scanCommandBytes) and the bytes the decoder stores
\* ------------------------------------------------------------------------
\* command codes of well-formed packets
Codes == { c \in 0..255 : c % 4 = 0 }

\* the packet of a button: 0x53 0x2C code ~code
ButtonPacket(code) == <<83, 44, code, 255 - code>>

\* packets damaged on the line: each byte of 53 2C F8 07 in turn, a code that
\* is not a multiple of 4 with its complement, and such a code that is 0x53
DamagedPackets ==
    { <<82, 44, 248, 7>>, <<83, 45, 248, 7>>, <<83, 44, 249, 7>>,
      <<83, 44, 248, 6>>, <<83, 44, 249, 6>>, <<83, 44, 83, 172>> }

RadioPackets == { ButtonPacket(c) : c \in Codes } \cup DamagedPackets

\* what the bytes of a packet leave alone
ByteFrame ==
    /\ UNCHANGED <<g_dataOutPin, vw_lastFallingEdge, vw_measuringLow, rawTrace,
                   isrAttached, lineLow>>
    /\ UNCHANGED <<vw_scanPtr, g_btnCb, btnEvents>>
    /\ UNCHANGED <<btVars, emuVars, taskVars, rxVars, raceVars>>

\* vw_dataout_isr over the two edges of a start marker: the radio begins a
\* packet
StartMarker(packets, max) ==
    /\ isrAttached
    /\ radioPkt = <<>>
    /\ nPackets < max
    /\ \E pkt \in packets : radioPkt' = pkt
    /\ nPackets' = nPackets + 1
    /\ vw_capBusy' = TRUE
    /\ vw_capBitPacket' = VW_PKTSIZE
    /\ vw_capBit' = 8
    /\ vw_currentByte' = 0
    /\ freshStart' = TRUE
    /\ UNCHANGED nPauses
    /\ UNCHANGED <<vw_capBuffer, vw_capPtr, nBits>>
    /\ ByteFrame

\* the radio sends any packet
vw_dataout_isr_startMarker == StartMarker(RadioPackets, MaxPackets)

\* the packets of NEXT_TRACK and PREV_TRACK
ButtonPackets == { ButtonPacket(248), ButtonPacket(120) }

\* the radio sends button after button
vw_dataout_isr_startMarker_button == StartMarker(ButtonPackets, MaxRingPackets)

\* vw_dataout_isr over the sixteen edges of the eight bits of a byte: the
\* byte is stored in the ring buffer (the diagnostic trace is left as it is:
\* processRawLog, which runs before every scan, empties it)
vw_dataout_isr_dataByte ==
    /\ isrAttached
    /\ radioPkt # <<>>
    /\ vw_capBusy /\ vw_capBit = 8 /\ vw_capBitPacket >= 8
    /\ vw_capBuffer' = [vw_capBuffer EXCEPT ![vw_capPtr] = Head(radioPkt)]
    /\ vw_capPtr' = (vw_capPtr + 1) % VW_CAPBUFFER_SIZE
    /\ vw_capBit' = 8
    /\ vw_currentByte' = 0
    /\ vw_capBitPacket' = vw_capBitPacket - 8
    /\ vw_capBusy' = (vw_capBitPacket - 8 # 0)
    /\ nBits' = nBits + 8
    /\ radioPkt' = Tail(radioPkt)
    /\ UNCHANGED <<nPackets, freshStart, nPauses>>
    /\ ByteFrame

\* before the first button: the radio has sent five packets of zero bytes
\* and one more that broke off after its first zero byte, and the scanner
\* has passed over all of them, so that the next packet wraps around the end
\* of the ring buffer
radio_idle_packets ==
    /\ isrAttached
    /\ nPackets = 0
    /\ vw_capPtr = 0 /\ vw_scanPtr = 0
    /\ vw_capPtr' = 21
    /\ vw_scanPtr' = 21
    /\ vw_capBusy' = TRUE
    /\ vw_capBitPacket' = VW_PKTSIZE - 8
    /\ vw_capBit' = 8
    /\ vw_currentByte' = 0
    /\ freshStart' = TRUE
    /\ UNCHANGED nPauses
    /\ nBits' = nBits + 168
    /\ UNCHANGED <<g_dataOutPin, vw_capBuffer, vw_lastFallingEdge,
                   vw_measuringLow, rawTrace, isrAttached, lineLow>>
    /\ UNCHANGED <<g_btnCb, btnEvents, radioPkt, nPackets>>
    /\ UNCHANGED <<btVars, emuVars, taskVars, rxVars, raceVars>>

\* bytes between the scan position and the capture position
Available ==
    IF vw_capPtr >= vw_scanPtr
    THEN vw_capPtr - vw_scanPtr
    ELSE VW_CAPBUFFER_SIZE - vw_scanPtr + vw_capPtr

\* the byte k places after the scan position
ScanByte(k) == vw_capBuffer[(vw_scanPtr + k) % VW_CAPBUFFER_SIZE]

\* variant: the scan position is not wrapped at the end of the buffer
ScanNext_noWrap(n) == vw_scanPtr + n

\* the scan position advanced by n bytes
ScanNext(n) == (vw_scanPtr + n) % VW_CAPBUFFER_SIZE

\* variant: the sum of code and complement is not tested
ChecksumOk_any(byte3, byte4) == TRUE

\* (uint8_t)(byte3 + byte4) == 0xFF
ChecksumOk(byte3, byte4) == (byte3 + byte4) % 256 = 255

\* (byte3 & 0x03) == 0
CodeAligned(byte3) == byte3 % 4 = 0

\* variant: the codes of DISC_5 and DISC_6 exchanged, and 0x14 a button
ButtonOf_slip(cmdcode) ==
    CASE cmdcode = 248 -> "NEXT_TRACK"
      [] cmdcode = 120 -> "PREV_TRACK"
      [] cmdcode = 12 -> "DISC_1"
      [] cmdcode = 140 -> "DISC_2"
      [] cmdcode = 76 -> "DISC_3"
      [] cmdcode = 204 -> "DISC_4"
      [] cmdcode = 44 -> "DISC_6"
      [] cmdcode = 172 -> "DISC_5"
      [] cmdcode = 160 -> "SCAN_TOGGLE"
      [] cmdcode = 224 -> "RANDOM_TOGGLE"
      [] cmdcode = 20 -> "PLAY_PAUSE"
      [] OTHER -> "UNKNOWN"

\* switch (cmdcode)
ButtonOf(cmdcode) ==
    CASE cmdcode = 248 -> "NEXT_TRACK"
      [] cmdcode = 120 -> "PREV_TRACK"
      [] cmdcode = 12 -> "DISC_1"
      [] cmdcode = 140 -> "DISC_2"
      [] cmdcode = 76 -> "DISC_3"
      [] cmdcode = 204 -> "DISC_4"
      [] cmdcode = 44 -> "DISC_5"
      [] cmdcode = 172 -> "DISC_6"
      [] cmdcode = 160 -> "SCAN_TOGGLE"
      [] cmdcode = 224 -> "RANDOM_TOGGLE"
      [] OTHER -> "UNKNOWN"

\* vw_scanCommandBytes: one iteration of its while loop.  A call is a
\* sequence of iterations that ends when the scan position has caught up or
\* fewer than four bytes follow a 0x53; the interrupt handler can store
\* bytes between two iterations.
vw_scanCommandBytes ==
    /\ vw_scanPtr # vw_capPtr
    /\ ScanByte(0) = 83 => Available >= 4
    /\ IF ScanByte(0) # 83
       THEN vw_scanPtr' = ScanNext(1) /\ UNCHANGED btnEvents
       ELSE IF ScanByte(1) # 44
       THEN vw_scanPtr' = ScanNext(1) /\ UNCHANGED btnEvents
       ELSE IF ~ChecksumOk(ScanByte(2), ScanByte(3))
       THEN vw_scanPtr' = ScanNext(1) /\ UNCHANGED btnEvents
       ELSE IF ~CodeAligned(ScanByte(2))
       THEN vw_scanPtr' = ScanNext(1) /\ UNCHANGED btnEvents
       ELSE /\ btnEvents' =
                  IF g_btnCb /\ ButtonOf(ScanByte(2)) # "UNKNOWN"
                  THEN Append(btnEvents, ButtonOf(ScanByte(2)))
                  ELSE btnEvents
            /\ vw_scanPtr' = ScanNext(4)
    /\ UNCHANGED <<g_btnCb, radioPkt, nPackets>>
    /\ UNCHANGED <<btVars, decVars, emuVars, taskVars, rxVars, raceVars>>

\* vw_scanCommandBytes step by step, the interrupt handler free to run in
\* between.  The loop test and the read of byte1:
vw_scan_byte1 ==
    /\ scanPc = "top"
    /\ vw_scanPtr # vw_capPtr
    /\ IF ScanByte(0) # 83
       THEN vw_scanPtr' = ScanNext(1) /\ UNCHANGED scanPc
       ELSE scanPc' = "cmp" /\ UNCHANGED vw_scanPtr
    /\ UNCHANGED <<scanGe, btnEvents>>
    /\ UNCHANGED <<g_btnCb, radioPkt, nPackets>>
    /\ UNCHANGED <<btVars, decVars, emuVars, taskVars, rxVars>>

\* the condition (vw_capPtr >= vw_scanPtr) of the conditional expression
vw_scan_compare ==
    /\ scanPc = "cmp"
    /\ scanGe' = (vw_capPtr >= vw_scanPtr)
    /\ scanPc' = "avail"
    /\ UNCHANGED <<vw_scanPtr, btnEvents>>
    /\ UNCHANGED <<g_btnCb, radioPkt, nPackets>>
    /\ UNCHANGED <<btVars, decVars, emuVars, taskVars, rxVars>>

\* uint8_t available: the chosen operand, computed from vw_capPtr as it is
\* read now
AvailableRead ==
    IF scanGe
    THEN (vw_capPtr - vw_scanPtr) % 256
    ELSE (VW_CAPBUFFER_SIZE - vw_scanPtr + vw_capPtr) % 256

\* if (available < 4) return;
vw_scan_available ==
    /\ scanPc = "avail"
    /\ scanPc' = IF AvailableRead < 4 THEN "top" ELSE "read"
    /\ UNCHANGED <<scanGe, vw_scanPtr, btnEvents>>
    /\ UNCHANGED <<g_btnCb, radioPkt, nPackets>>
    /\ UNCHANGED <<btVars, decVars, emuVars, taskVars, rxVars>>

\* byte2, byte3 and byte4 are read and tested, the scan position advanced
vw_scan_packet ==
    /\ scanPc = "read"
    /\ scanPc' = "top"
    /\ IF ScanByte(1) # 44
       THEN vw_scanPtr' = ScanNext(1) /\ UNCHANGED btnEvents
       ELSE IF ~ChecksumOk(ScanByte(2), ScanByte(3))
       THEN vw_scanPtr' = ScanNext(1) /\ UNCHANGED btnEvents
       ELSE IF ~CodeAligned(ScanByte(2))
       THEN vw_scanPtr' = ScanNext(1) /\ UNCHANGED btnEvents
       ELSE /\ btnEvents' =
                  IF g_btnCb /\ ButtonOf(ScanByte(2)) # "UNKNOWN"
                  THEN Append(btnEvents, ButtonOf(ScanByte(2)))
                  ELSE btnEvents
            /\ vw_scanPtr' = ScanNext(4)
    /\ UNCHANGED scanGe
    /\ UNCHANGED <<g_btnCb, radioPkt, nPackets>>
    /\ UNCHANGED <<btVars, decVars, emuVars, taskVars, rxVars>>

\* ------------------------------------------------------------------------
\* The changer emulator (vw_cdc.cpp, cdc_loop and the setters)
\* ------------------------------------------------------------------------
\* the driver's state that the emulator never touches
btRest ==
    << bt, cmdQueue, queueHead, queueTail, cmdInProgress, cmdTimestamp, btState,
       devStat, g_trackInfo, stateCb, lastStatPollMs, uart, serialOut, pc,
       accepted, nPushCalls, nPopped, cbCount, cbLast, nTicks, nRx >>

\* lengths of the three phases before Play
IDLE_COUNT == 20

INIT_PLAY_COUNT == 24

LEAD_IN_COUNT == 10

\* period of the frames and of the displayed second, and the time an external
\* time update stays in force
FRAME_MS == 50

SECOND_MS == 1000

BT_TIME_MS == 3000

\* first and last value of the disc announce cycle
DISCLOAD_FIRST == 46

DISCLOAD_LAST == 41

\* toBCD(val)
toBCD(val) ==
    LET v == IF val > 99 THEN 99 ELSE val
    IN  ((v \div 10) * 16) + (v % 10)

\* disc and track as cdc_loop clamps them
\* variant: only the upper limit is applied
ClampDisc_upper(d) == IF d > 6 THEN 6 ELSE d

ClampDisc(d) == IF d < 1 THEN 1 ELSE IF d > 6 THEN 6 ELSE d

ClampTrack(t) == IF t < 1 THEN 1 ELSE IF t > 99 THEN 99 ELSE t

\* the frames of the four phases
IdleFrame(disc, track) ==
    <<116, 191 - disc, 255 - track, 255, 255, 255, 143, 124>>

InitAnnounceFrame(discLoad) ==
    <<52, discLoad, 255 - 153, 255 - 153, 255 - 89, 183, 255, 60>>

InitNormalFrame(disc, track) ==
    <<52, 191 - disc, 255 - track, 255, 255, 255, 239, 60>>

LeadInAnnounceFrame(disc) ==
    <<52, (disc % 16) + 32, 255 - 153, 255 - 153, 255 - 89, 183, 255, 60>>

LeadInNormalFrame(disc, track) ==
    <<52, 191 - disc, 255 - track, 255, 255, 255, 174, 60>>

PlayFrame(disc, track) ==
    <<52, 191 - disc, 255 - toBCD(track), 255 - toBCD(g_playMinutes'),
      255 - toBCD(g_playSeconds'), g_modeByte, g_scanByte, 60>>

\* variant: the frames of odd count announce
isAnnounce_odd(counter) == counter % 2 # 0

\* (stateCounter & 1) == 0
isAnnounce(counter) == counter % 2 = 0

\* an external time update is in force at time t
btTimeActive(t) ==
    g_lastBtTimeUpdate > 0 /\ Sub32(t, g_lastBtTimeUpdate) < BT_TIME_MS

\* the displayed time advances by itself at time t
SelfIncrement(t) ==
    /\ ~btTimeActive(t)
    /\ cdcState = "ST_PLAY"
    /\ g_status.state = "PLAYING"
    /\ Sub32(t, lastSecond) >= SECOND_MS

\* variant: InitPlay ends after 23 frames
AfterFrame_short(state, counter) ==
    IF state = "ST_IDLE_THEN_PLAY"
    THEN IF counter + 1 >= 0 THEN <<"ST_INIT_PLAY", 1 - INIT_PLAY_COUNT>>
         ELSE <<state, counter + 1>>
    ELSE IF state = "ST_INIT_PLAY"
    THEN IF counter + 1 >= 0 THEN <<"ST_PLAY_LEAD_IN", 0 - LEAD_IN_COUNT>>
         ELSE <<state, counter + 1>>
    ELSE IF state = "ST_PLAY_LEAD_IN"
    THEN IF counter + 1 >= 0 THEN <<"ST_PLAY", counter + 1>>
         ELSE <<state, counter + 1>>
    ELSE <<state, counter>>

\* state and stateCounter after the frame of one tick
AfterFrame(state, counter) ==
    IF state = "ST_IDLE_THEN_PLAY"
    THEN IF counter + 1 >= 0 THEN <<"ST_INIT_PLAY", 0 - INIT_PLAY_COUNT>>
         ELSE <<state, counter + 1>>
    ELSE IF state = "ST_INIT_PLAY"
    THEN IF counter + 1 >= 0 THEN <<"ST_PLAY_LEAD_IN", 0 - LEAD_IN_COUNT>>
         ELSE <<state, counter + 1>>
    ELSE IF state = "ST_PLAY_LEAD_IN"
    THEN IF counter + 1 >= 0 THEN <<"ST_PLAY", counter + 1>>
         ELSE <<state, counter + 1>>
    ELSE <<state, counter>>

\* the frame of one tick
FrameOf(state, counter, disc, track) ==
    IF state = "ST_IDLE_THEN_PLAY" THEN IdleFrame(disc, track)
    ELSE IF state = "ST_INIT_PLAY"
    THEN IF isAnnounce(counter) THEN InitAnnounceFrame(g_discLoad)
         ELSE InitNormalFrame(disc, track)
    ELSE IF state = "ST_PLAY_LEAD_IN"
    THEN IF isAnnounce(counter) THEN LeadInAnnounceFrame(disc)
         ELSE LeadInNormalFrame(disc, track)
    ELSE PlayFrame(disc, track)

\* variant: the indicator is decremented without wrapping
DiscLoadAfter_noWrap(state, counter) ==
    IF state = "ST_IDLE_THEN_PLAY"
    THEN IF counter + 1 >= 0 THEN DISCLOAD_FIRST ELSE g_discLoad
    ELSE IF state = "ST_INIT_PLAY" /\ isAnnounce(counter)
    THEN g_discLoad - 1
    ELSE g_discLoad

\* g_discLoad after the frame of one tick
DiscLoadAfter(state, counter) ==
    IF state = "ST_IDLE_THEN_PLAY"
    THEN IF counter + 1 >= 0 THEN DISCLOAD_FIRST ELSE g_discLoad
    ELSE IF state = "ST_INIT_PLAY" /\ isAnnounce(counter)
    THEN IF g_discLoad = DISCLOAD_LAST THEN DISCLOAD_FIRST ELSE g_discLoad - 1
    ELSE g_discLoad

\* cdc_loop() at time t, after its calls of processRawLog and cdc_pollNec
\* (the actions processRawLog and vw_scanCommandBytes) have returned
cdc_loop(t) ==
    LET state0   == IF initStarted THEN cdcState ELSE "ST_IDLE_THEN_PLAY"
        counter0 == IF initStarted THEN stateCounter ELSE 0 - IDLE_COUNT
        disc     == ClampDisc(g_status.disc)
        track    == ClampTrack(g_status.track)
    IN  /\ rawTrace = <<>>
        /\ vw_scanPtr = vw_capPtr
        /\ IF SelfIncrement(t)
           THEN /\ lastSecond' = t
                /\ g_playSeconds' = IF g_playSeconds + 1 >= 60 THEN 0
                                    ELSE g_playSeconds + 1
                /\ g_playMinutes' = IF g_playSeconds + 1 >= 60
                                    THEN IF g_playMinutes + 1 >= 100 THEN 0
                                         ELSE g_playMinutes + 1
                                    ELSE g_playMinutes
           ELSE UNCHANGED <<lastSecond, g_playSeconds, g_playMinutes>>
        /\ IF Sub32(t, g_prevMs) >= FRAME_MS
           THEN /\ g_prevMs' = t
                /\ initStarted' = TRUE
                /\ spiOut' = FrameOf(state0, counter0, disc, track)
                /\ nFrames' = nFrames + 1
                /\ cdcState' = AfterFrame(state0, counter0)[1]
                /\ stateCounter' = AfterFrame(state0, counter0)[2]
                /\ g_discLoad' = DiscLoadAfter(state0, counter0)
           ELSE UNCHANGED <<g_prevMs, initStarted, spiOut, nFrames, cdcState,
                            stateCounter, g_discLoad>>
        /\ UNCHANGED <<g_status, g_modeByte, g_scanByte, g_lastBtTimeUpdate,
                       btTimeSet>>

\* waits of the CDC task between two passes while the first 54 frames go out,
\* and afterwards
LeadInDelays == {25}

PlayDelays == {1, 999, 2000}

\* cdc_task of main.cpp: vTaskDelay, then cdc_loop
cdc_task ==
    /\ g_dataOutPin >= 0
    /\ cdcState = "ST_PLAY" => nPlayTicks < MaxPlayTicks
    /\ \E d \in (IF cdcState = "ST_PLAY" THEN PlayDelays ELSE LeadInDelays) :
          /\ now' = Add32(now, d)
          /\ cdc_loop(Add32(now, d))
    /\ nPlayTicks' = IF cdcState = "ST_PLAY" THEN nPlayTicks + 1 ELSE nPlayTicks
    /\ UNCHANGED nCdcCalls
    /\ UNCHANGED <<btRest, decVars, scanVars, taskVars, rxVars, raceVars>>

\* what a setter leaves alone
SetterFrame ==
    /\ nCdcCalls < MaxCdcCalls
    /\ nCdcCalls' = nCdcCalls + 1
    /\ UNCHANGED <<g_prevMs, g_discLoad, cdcState, stateCounter, initStarted,
                   lastSecond, spiOut, nFrames, nPlayTicks, now>>
    /\ UNCHANGED <<btRest, decVars, scanVars, taskVars, rxVars, raceVars>>

\* arguments of the setters
DiscTrackArgs == {<<0, 0>>, <<1, 5>>, <<6, 99>>, <<7, 100>>}

PlayTimeArgs == {<<3, 45>>, <<100, 60>>}

CdcPlayState == {"STOPPED", "PLAYING", "PAUSED"}

\* variant: the displayed time survives a change of disc or track
DiscTrackTime_keep(m) == m

\* minutes and seconds after cdc_setDiscTrack
DiscTrackTime(m) == 0

\* cdc_setDiscTrack(d, t)
cdc_setDiscTrack ==
    /\ SetterFrame
    /\ \E a \in DiscTrackArgs :
          g_status' = [g_status EXCEPT !.disc = a[1], !.track = a[2]]
    /\ g_playMinutes' = DiscTrackTime(g_playMinutes)
    /\ g_playSeconds' = DiscTrackTime(g_playSeconds)
    /\ UNCHANGED <<g_modeByte, g_scanByte, g_lastBtTimeUpdate, btTimeSet>>

\* cdc_setPlayState(s)
cdc_setPlayState ==
    /\ SetterFrame
    /\ \E s \in CdcPlayState : g_status' = [g_status EXCEPT !.state = s]
    /\ UNCHANGED <<g_modeByte, g_scanByte, g_playMinutes, g_playSeconds,
                   g_lastBtTimeUpdate, btTimeSet>>

\* updateModeBytes(): the mode byte of the flags
updateModeBytes(scanOn, randomOn) ==
    IF scanOn /\ randomOn THEN 212
    ELSE IF scanOn THEN 208
    ELSE IF randomOn THEN 4
    ELSE 0

\* cdc_setRandom(o)
cdc_setRandom ==
    /\ SetterFrame
    /\ \E o \in BOOLEAN :
          /\ g_status' = [g_status EXCEPT !.randomOn = o]
          /\ g_modeByte' = updateModeBytes(g_status.scanOn, o)
    /\ g_scanByte' = 207
    /\ UNCHANGED <<g_playMinutes, g_playSeconds, g_lastBtTimeUpdate, btTimeSet>>

\* cdc_setScan(o)
cdc_setScan ==
    /\ SetterFrame
    /\ \E o \in BOOLEAN :
          /\ g_status' = [g_status EXCEPT !.scanOn = o]
          /\ g_modeByte' = updateModeBytes(o, g_status.randomOn)
    /\ g_scanByte' = 207
    /\ UNCHANGED <<g_playMinutes, g_playSeconds, g_lastBtTimeUpdate, btTimeSet>>

\* cdc_resetModeFF()
cdc_resetModeFF ==
    /\ SetterFrame
    /\ g_status' = [g_status EXCEPT !.scanOn = FALSE, !.randomOn = FALSE]
    /\ g_modeByte' = 255
    /\ UNCHANGED <<g_scanByte, g_playMinutes, g_playSeconds, g_lastBtTimeUpdate,
                   btTimeSet>>

\* a call of cdc_setPlayTime(minutes, seconds), before the first frame or while
\* the emulator plays
cdc_setPlayTime_call ==
    /\ SetterFrame
    /\ ~initStarted \/ cdcState = "ST_PLAY"
    /\ \E a \in PlayTimeArgs : cdc_setPlayTime(a[1], a[2])
    /\ UNCHANGED <<g_status, g_modeByte, g_scanByte>>

\* ------------------------------------------------------------------------
\* The tasks and the two mutexes (main.cpp, bt_webui.cpp)
\* ------------------------------------------------------------------------
MUTEX_WAIT_MS == 100

\* the driver's state that queuePush does not write
notQueueVars ==
    << bt, queueHead, cmdInProgress, cmdTimestamp, btState, devStat,
       g_trackInfo, stateCb, lastStatPollMs, g_playMinutes, g_playSeconds,
       g_lastBtTimeUpdate, btTimeSet, uart, serialOut, pc, nPopped, cbCount,
       cbLast, nTicks, nRx >>

\* xSemaphoreTake(mutex, pdMS_TO_TICKS(MUTEX_WAIT_MS)) == pdTRUE
xSemaphoreTake(owner) == owner = "none"

\* variant: the mutex stays with the task that gives it
xSemaphoreGive_keep(owner) == owner

\* the holder of a mutex after xSemaphoreGive
xSemaphoreGive(owner) == "none"

\* loop(): if (xSemaphoreTake(g_btMutex, ...) == pdTRUE); a failed take has
\* waited MUTEX_WAIT_MS and the guarded call is passed over
loop_take_bt ==
    /\ bt /\ loopPc = "idle"
    /\ nLoopCalls < MaxLoopCalls
    /\ nLoopCalls' = nLoopCalls + 1
    /\ IF xSemaphoreTake(g_btMutex)
       THEN /\ g_btMutex' = "loop"
            /\ loopPc' = "bt_call"
            /\ UNCHANGED now
       ELSE /\ now' = Add32(now, MUTEX_WAIT_MS)
            /\ UNCHANGED <<g_btMutex, loopPc>>
    /\ UNCHANGED <<g_cdcMutex, loopTail, webPc, webTail>>
    /\ UNCHANGED <<notQueueVars, cmdQueue, queueTail, accepted, nPushCalls>>
    /\ UNCHANGED <<decVars, scanVars, emuVars, rxVars, raceVars>>

\* bt1036_play() in loop(): queuePush tests queueIsFull and reads queueTail
loop_queuePush_begin ==
    /\ loopPc = "bt_call"
    /\ nPushCalls' = nPushCalls + 1
    /\ IF queueIsFull(queueHead, queueTail)
       THEN loopPc' = "bt_give" /\ UNCHANGED loopTail
       ELSE loopPc' = "bt_store" /\ loopTail' = queueTail
    /\ UNCHANGED <<g_btMutex, g_cdcMutex, webPc, webTail, nLoopCalls>>
    /\ UNCHANGED <<notQueueVars, now, cmdQueue, queueTail, accepted>>
    /\ UNCHANGED <<decVars, scanVars, emuVars, rxVars, raceVars>>

\* queuePush stores the command and advances queueTail; the index that is
\* advanced is the one read before or the one in memory now
loop_queuePush_end ==
    /\ loopPc = "bt_store"
    /\ cmdQueue' = [cmdQueue EXCEPT ![loopTail] = "AT+PLAY"]
    /\ \E tail \in {loopTail, queueTail} :
          queueTail' = (tail + 1) % CMD_QUEUE_SIZE
    /\ accepted' = Append(accepted, "AT+PLAY")
    /\ loopPc' = "bt_give"
    /\ UNCHANGED <<g_btMutex, g_cdcMutex, loopTail, webPc, webTail, nLoopCalls>>
    /\ UNCHANGED <<notQueueVars, now, nPushCalls>>
    /\ UNCHANGED <<decVars, scanVars, emuVars, rxVars, raceVars>>

\* xSemaphoreGive(g_btMutex)
loop_give_bt ==
    /\ loopPc = "bt_give"
    /\ g_btMutex' = xSemaphoreGive(g_btMutex)
    /\ loopPc' = "idle"
    /\ UNCHANGED <<g_cdcMutex, loopTail, webPc, webTail, nLoopCalls>>
    /\ UNCHANGED <<btVars, decVars, scanVars, emuVars, rxVars, raceVars>>

\* loop(): if (xSemaphoreTake(g_cdcMutex, ...) == pdTRUE)
loop_take_cdc ==
    /\ bt /\ loopPc = "idle"
    /\ nLoopCalls < MaxLoopCalls
    /\ nLoopCalls' = nLoopCalls + 1
    /\ IF xSemaphoreTake(g_cdcMutex)
       THEN /\ g_cdcMutex' = "loop"
            /\ loopPc' = "cdc_call"
            /\ UNCHANGED now
       ELSE /\ now' = Add32(now, MUTEX_WAIT_MS)
            /\ UNCHANGED <<g_cdcMutex, loopPc>>
    /\ UNCHANGED <<g_btMutex, loopTail, webPc, webTail>>
    /\ UNCHANGED <<notQueueVars, cmdQueue, queueTail, accepted, nPushCalls>>
    /\ UNCHANGED <<decVars, scanVars, emuVars, rxVars, raceVars>>

\* cdc_setPlayState(...) in loop()
loop_cdc_call ==
    /\ loopPc = "cdc_call"
    /\ \E s \in CdcPlayState : g_status' = [g_status EXCEPT !.state = s]
    /\ loopPc' = "cdc_give"
    /\ UNCHANGED <<g_btMutex, g_cdcMutex, loopTail, webPc, webTail, nLoopCalls>>
    /\ UNCHANGED <<g_modeByte, g_scanByte, g_prevMs, g_discLoad, cdcState,
                   stateCounter, initStarted, lastSecond, spiOut, nFrames,
                   nCdcCalls, nPlayTicks>>
    /\ UNCHANGED <<btVars, decVars, scanVars, rxVars, raceVars>>

\* xSemaphoreGive(g_cdcMutex)
loop_give_cdc ==
    /\ loopPc = "cdc_give"
    /\ g_cdcMutex' = xSemaphoreGive(g_cdcMutex)
    /\ loopPc' = "idle"
    /\ UNCHANGED <<g_btMutex, loopTail, webPc, webTail, nLoopCalls>>
    /\ UNCHANGED <<btVars, decVars, scanVars, emuVars, rxVars, raceVars>>

\* handleCmd of the web task: bt1036_nextTrack(), no mutex is taken
web_queuePush_begin ==
    /\ bt /\ webPc = "idle"
    /\ nPushCalls < MaxTaskPush
    /\ nPushCalls' = nPushCalls + 1
    /\ IF queueIsFull(queueHead, queueTail)
       THEN UNCHANGED <<webPc, webTail>>
       ELSE webPc' = "store" /\ webTail' = queueTail
    /\ UNCHANGED <<g_btMutex, g_cdcMutex, loopPc, loopTail, nLoopCalls>>
    /\ UNCHANGED <<notQueueVars, now, cmdQueue, queueTail, accepted>>
    /\ UNCHANGED <<decVars, scanVars, emuVars, rxVars, raceVars>>

web_queuePush_end ==
    /\ webPc = "store"
    /\ cmdQueue' = [cmdQueue EXCEPT ![webTail] = "AT+FORWARD"]
    /\ \E tail \in {webTail, queueTail} :
          queueTail' = (tail + 1) % CMD_QUEUE_SIZE
    /\ accepted' = Append(accepted, "AT+FORWARD")
    /\ webPc' = "idle"
    /\ UNCHANGED <<g_btMutex, g_cdcMutex, loopPc, loopTail, webTail, nLoopCalls>>
    /\ UNCHANGED <<notQueueVars, now, nPushCalls>>
    /\ UNCHANGED <<decVars, scanVars, emuVars, rxVars, raceVars>>

\* ------------------------------------------------------------------------
\* The line reader of bt1036_loop, byte by byte (bt1036_at.cpp)
\* ------------------------------------------------------------------------
RX_LINE_MAX == 250

\* n characters that are neither CR nor LF
Fill(n) == [i \in 1..n |-> "x"]

\* what the module sends: a line one character too long followed by "OK" before
\* its LF, a line of the greatest length kept, and lines ended by CR LF
WireStreams ==
    { Fill(RX_LINE_MAX + 1) \o <<"O", "K", "\n">>,
      Fill(RX_LINE_MAX) \o <<"\n">>,
      <<"O", "K", "\r", "\n">>,
      <<"\r", "\n">>,
      P_PLAYSTAT \o <<"1", "\r", "\n">> }

\* the module sends a stream of bytes
UartWire ==
    /\ bt /\ wire = <<>>
    /\ nWire < MaxWire
    /\ nWire' = nWire + 1
    /\ \E s \in WireStreams : wire' = s
    /\ UNCHANGED <<rxLine, rxOverflow>>
    /\ UNCHANGED <<btVars, decVars, scanVars, emuVars, taskVars, raceVars>>

\* what handleLine may write
handleLineVars ==
    << cmdInProgress, queueHead, nPopped, btState, cbCount, cbLast, devStat,
       g_trackInfo, g_playMinutes, g_playSeconds, g_lastBtTimeUpdate,
       btTimeSet, cmdQueue, queueTail, accepted, nPushCalls, cmdTimestamp,
       serialOut, lastStatPollMs >>

\* one turn of while (bt->available()): char c = bt->read(); ...
bt1036_loop_rxByte ==
    /\ bt /\ pc \in {"idle", "rx"}
    /\ wire # <<>>
    /\ wire' = Tail(wire)
    /\ pc' = "rx"
    /\ LET c == Head(wire)
       IN  IF c = "\r"
           THEN UNCHANGED <<rxLine, rxOverflow, handleLineVars>>
           ELSE IF c = "\n"
           THEN /\ rxOverflow' = FALSE
                /\ IF rxLine # <<>>
                   THEN handleLine(rxLine) /\ rxLine' = <<>>
                   ELSE UNCHANGED <<rxLine, handleLineVars>>
           ELSE /\ IF Len(rxLine) + 1 > RX_LINE_MAX
                   THEN rxLine' = <<>> /\ rxOverflow' = TRUE
                   ELSE rxLine' = Append(rxLine, c) /\ UNCHANGED rxOverflow
                /\ UNCHANGED handleLineVars
    /\ UNCHANGED <<bt, stateCb, now, uart, nTicks, nRx, nWire>>
    /\ UNCHANGED <<decVars, scanVars, emuVars, taskVars, raceVars>>

\* ------------------------------------------------------------------------
\* Specifications
\* ------------------------------------------------------------------------
\* the static initialisers of the scanner and the emulator
InitCdc ==
    /\ vw_scanPtr = 0
    /\ g_btnCb = FALSE
    /\ btnEvents = <<>>
    /\ radioPkt = <<>>
    /\ nPackets = 0
    /\ g_status = [disc |-> 0, track |-> 0, state |-> "STOPPED",
                   randomOn |-> FALSE, scanOn |-> FALSE]
    /\ g_modeByte = 0
    /\ g_scanByte = 207
    /\ g_prevMs = 0
    /\ g_discLoad = 46
    /\ cdcState = "ST_IDLE_THEN_PLAY"
    /\ stateCounter = 0
    /\ initStarted = FALSE
    /\ lastSecond = 0
    /\ spiOut = <<>>
    /\ nFrames = 0
    /\ nCdcCalls = 0
    /\ nPlayTicks = 0

\* setup(): the mutexes are created free, no task is inside a call
InitTasks ==
    /\ g_btMutex = "none"
    /\ g_cdcMutex = "none"
    /\ loopPc = "idle"
    /\ loopTail = 0
    /\ webPc = "idle"
    /\ webTail = 0
    /\ nLoopCalls = 0

InitRace ==
    /\ scanPc = "top"
    /\ scanGe = FALSE

InitRx ==
    /\ rxLine = <<>>
    /\ wire = <<>>
    /\ rxOverflow = FALSE
    /\ nWire = 0

Init == InitBt /\ InitDec /\ InitCdc /\ InitTasks /\ InitRx /\ InitRace

\* the queue-centred specification: the enqueueing API, the loop, the clock
\* and a module that answers with terminal responses
Next ==
    \/ bt1036_init
    \/ bt1036_play
    \/ bt1036_enterPairingMode
    \/ bt1036_loop_rx
    \/ bt1036_loop_timeout
    \/ bt1036_loop_send
    \/ bt1036_loop_poll
    \/ UartRxQueue
    \/ Tick

Spec == Init /\ [][Next]_vars

\* the parser-centred specification: the start-up commands, the loop, the
\* observer, and a module that sends any line
NextParse ==
    \/ bt1036_init
    \/ bt1036_setStateCallback
    \/ bt1036_loop_rx
    \/ bt1036_loop_timeout
    \/ bt1036_loop_send
    \/ bt1036_loop_poll
    \/ UartRxAny
    \/ TickParse

SpecParse == Init /\ [][NextParse]_vars

\* the decoder: the interrupt handler on both edges and the poller that
\* empties the diagnostic trace
NextDec ==
    \/ line_edge_unattached
    \/ cdc_init
    \/ vw_dataout_isr_falling
    \/ vw_dataout_isr_rising
    \/ processRawLog

SpecDec == Init /\ [][NextDec]_vars

\* the pulse decoder while the radio sends whole packets
NextPacket ==
    \/ cdc_init
    \/ vw_dataout_isr_falling
    \/ vw_dataout_isr_rising_packet
    \/ processRawLog

SpecPacket == Init /\ [][NextPacket]_vars

\* the decoder with the pause control
NextPause ==
    \/ line_edge_unattached
    \/ cdc_init
    \/ cdc_pause
    \/ vw_dataout_isr_falling
    \/ vw_dataout_isr_rising
    \/ processRawLog

SpecPause == Init /\ [][NextPause]_vars

\* the scanner: the bytes the interrupt handler stores and the poller's scan
NextScan ==
    \/ cdc_init
    \/ radio_idle_packets
    \/ vw_dataout_isr_startMarker
    \/ vw_dataout_isr_dataByte
    \/ vw_scanCommandBytes

SpecScan == Init /\ [][NextScan]_vars

\* the ring buffer filled by a radio that sends button after button
NextRing ==
    \/ cdc_init
    \/ vw_dataout_isr_startMarker_button
    \/ vw_dataout_isr_dataByte
    \/ vw_scanCommandBytes

SpecRing == Init /\ [][NextRing]_vars

\* the scanner step by step against the interrupt handler
NextRace ==
    \/ cdc_init
    \/ radio_idle_packets
    \/ vw_dataout_isr_startMarker
    \/ vw_dataout_isr_dataByte
    \/ vw_scan_byte1
    \/ vw_scan_compare
    \/ vw_scan_available
    \/ vw_scan_packet

SpecRace == Init /\ [][NextRace]_vars

\* the emulator: the CDC task and the callers of the setters
NextCdc ==
    \/ cdc_init
    \/ cdc_task
    \/ cdc_setDiscTrack
    \/ cdc_setPlayState
    \/ cdc_setRandom
    \/ cdc_setScan
    \/ cdc_resetModeFF
    \/ cdc_setPlayTime_call

SpecCdc == Init /\ [][NextCdc]_vars

\* the tasks: loop() with its guarded calls, the web task and the BT task
NextTasks ==
    \/ bt1036_init
    \/ loop_take_bt
    \/ loop_queuePush_begin
    \/ loop_queuePush_end
    \/ loop_give_bt
    \/ loop_take_cdc
    \/ loop_cdc_call
    \/ loop_give_cdc
    \/ web_queuePush_begin
    \/ web_queuePush_end
    \/ bt1036_loop_timeout
    \/ bt1036_loop_send
    \/ bt1036_loop_poll

SpecTasks == Init /\ [][NextTasks]_vars

\* the driver receiving byte by byte
NextLine ==
    \/ bt1036_init
    \/ bt1036_setStateCallback
    \/ UartWire
    \/ bt1036_loop_rxByte
    \/ bt1036_loop_timeout
    \/ bt1036_loop_send
    \/ bt1036_loop_poll

SpecLine == Init /\ [][NextLine]_vars

\* ------------------------------------------------------------------------
\* Properties of the command queue (checked under Spec)
\* ------------------------------------------------------------------------
\* a step of bt1036_loop that hands the first waiting line to handleLine
RxStep == uart # <<>> /\ uart' = Tail(uart) /\ pc' = "rx"

\* the timeout test of a pass, and the send step that follows it
TimeoutStep == pc \in {"idle", "rx"} /\ pc' = "send"

SendStep == pc = "send" /\ pc' = "poll"

\* C1: at most one command is in flight.  The commands written to the module
\* and not yet closed number one while a command is in flight and none
\* otherwise; a command is written only when none is in flight and the queue
\* is not empty, the written command is the head of the queue, and it becomes
\* the command in flight.
C1_OneInFlight ==
    /\ [](Len(serialOut) - nPopped = IF cmdInProgress THEN 1 ELSE 0)
    /\ [][serialOut' # serialOut =>
            /\ ~cmdInProgress
            /\ QLen > 0
            /\ serialOut' = Append(serialOut, QueueSeq[1])
            /\ cmdInProgress']_vars

\* a command in flight with others waiting behind it, after an earlier
\* command was closed
C1_Witness == cmdInProgress /\ QLen >= 2 /\ nPopped >= 1

\* C2: the queued commands never exceed CMD_QUEUE_SIZE, every accepted
\* command that was not removed is in the queue, and a step that calls
\* queuePush leaves in the queue what was there, in its order, followed by
\* the commands accepted in the step: a rejected enqueue changes nothing.
C2_Bounded ==
    /\ [](/\ QLen <= CMD_QUEUE_SIZE
          /\ Len(accepted) - nPopped <= CMD_QUEUE_SIZE
          /\ QLen = Len(accepted) - nPopped)
    /\ [][nPushCalls' # nPushCalls =>
            /\ QueueSeq' = QueueSeq \o SubSeq(accepted', Len(accepted) + 1,
                                              Len(accepted'))
            /\ (accepted' = accepted =>
                    /\ QueueSeq' = QueueSeq
                    /\ queueHead' = queueHead
                    /\ queueTail' = queueTail)]_vars

\* an enqueue was rejected and the queue is still as full as it gets, with
\* the ring wrapped around
C2_Witness ==
    /\ pc = "idle"
    /\ nPushCalls > Len(accepted)
    /\ queueIsFull(queueHead, queueTail)
    /\ queueTail < queueHead

\* C3 (as the claim states it): an enqueue is dropped only when 10 commands
\* are queued; with at most 9 queued the command is appended at the tail.
C3_DropOnlyAtTen ==
    [][nPushCalls' = nPushCalls + 1 /\ QLen <= 9 =>
          /\ Len(accepted') = Len(accepted) + 1
          /\ QueueSeq' = Append(QueueSeq, accepted'[Len(accepted')])]_vars

\* C4: commands are dispatched in the order in which they were accepted,
\* each at most once and none skipped: the commands written to the module
\* are a prefix of the accepted commands, every removed command was written
\* before, and the queue holds the accepted commands that were not removed.
C4_Fifo ==
    /\ Len(serialOut) <= Len(accepted)
    /\ serialOut = SubSeq(accepted, 1, Len(serialOut))
    /\ nPopped <= Len(serialOut)
    /\ Len(serialOut) <= nPopped + 1
    /\ QueueSeq = SubSeq(accepted, nPopped + 1, Len(accepted))

\* the three start-up commands were dispatched and closed, and a command
\* enqueued later is the fourth to be dispatched
C4_Witness ==
    /\ Len(serialOut) = 4
    /\ serialOut[4] = "AT+PLAY"
    /\ nPopped = 3
    /\ QLen >= 2

\* C5: when a command has been in flight for more than CMD_TIMEOUT_MS, the
\* timeout test of the next pass clears the in-flight slot and removes the
\* command without writing it again, and the send step of the same pass
\* dispatches the next queued command, if there is one.
C5_Timeout ==
    /\ [][TimeoutStep /\ cmdInProgress /\ now - cmdTimestamp > CMD_TIMEOUT_MS =>
            /\ ~cmdInProgress'
            /\ QLen >= 1
            /\ QueueSeq' = Tail(QueueSeq)
            /\ serialOut' = serialOut]_vars
    /\ [][pc = "send" => SendStep]_vars
    /\ [][SendStep /\ ~cmdInProgress /\ QLen > 0 =>
            /\ serialOut' = Append(serialOut, QueueSeq[1])
            /\ cmdInProgress'
            /\ cmdTimestamp' = now
            /\ QueueSeq' = QueueSeq]_vars

\* no line was ever received, a command was removed by the timeout, and the
\* same pass has dispatched the next one
C5_Witness ==
    /\ pc = "poll"
    /\ nRx = 0
    /\ nPopped = 1
    /\ Len(serialOut) = 2
    /\ cmdInProgress
    /\ cmdTimestamp = now
    /\ now > CMD_TIMEOUT_MS

\* ------------------------------------------------------------------------
\* Properties of the line parser (checked under SpecParse)
\* ------------------------------------------------------------------------
\* the terminal responses: exactly "OK", or a line that begins with "ERROR"
\* or "ERR"
TerminalResponse(l) ==
    \/ l = <<"O", "K">>
    \/ (Len(l) >= 5 /\ SubSeq(l, 1, 5) = <<"E", "R", "R", "O", "R">>)
    \/ (Len(l) >= 3 /\ SubSeq(l, 1, 3) = <<"E", "R", "R">>)

\* C6: a received line that is exactly "OK", or begins with "ERROR" or
\* "ERR", clears the in-flight slot and removes exactly the head of the
\* queue while a command is in flight, and changes neither the slot nor the
\* queue while none is in flight.
C6_TerminalCloses ==
    [][RxStep /\ TerminalResponse(Head(uart)) =>
          IF cmdInProgress
          THEN /\ ~cmdInProgress'
               /\ QLen >= 1
               /\ QueueSeq' = Tail(QueueSeq)
               /\ cmdQueue' = cmdQueue
               /\ queueTail' = queueTail
          ELSE UNCHANGED <<cmdInProgress, cmdTimestamp, cmdQueue, queueHead,
                           queueTail, btState, devStat, g_trackInfo>>]_vars

\* the first start-up command was closed by a received line (no time has
\* passed), and the two others wait
C6_Witness ==
    /\ pc = "rx"
    /\ nTicks = 0
    /\ nPopped = 1
    /\ ~cmdInProgress
    /\ QueueSeq = <<"AT+VER", "AT+ADDR">>

\* the status report "+A2DPSTAT=5"
A2dpStat5 == <<"+", "A", "2", "D", "P", "S", "T", "A", "T", "=", "5">>

\* C7: a status report or an unrecognised line (white space at its ends
\* aside) leaves the in-flight slot, the send timestamp and the queue as
\* they are; "+A2DPSTAT=5" while a command is in flight sets the connection
\* state to PLAYING and keeps the command in flight, and the "OK" after it
\* closes the command and leaves the connection state.
C7_StatusKeepsInFlight ==
    /\ [][RxStep /\ ~TerminalResponse(trim(Head(uart))) =>
            UNCHANGED <<cmdInProgress, cmdTimestamp, cmdQueue, queueHead,
                        queueTail>>]_vars
    /\ [][RxStep /\ Head(uart) = A2dpStat5 /\ cmdInProgress =>
            /\ btState' = "PLAYING"
            /\ cmdInProgress'
            /\ QueueSeq' = QueueSeq]_vars
    /\ [][RxStep /\ Head(uart) = <<"O", "K">> /\ cmdInProgress =>
            /\ btState' = btState
            /\ ~cmdInProgress'
            /\ QueueSeq' = Tail(QueueSeq)]_vars

\* two lines were received while the first command was in flight: a report
\* that set the state to PLAYING and a terminal response that closed the
\* command
C7_Witness ==
    /\ pc = "rx"
    /\ uart = <<>>
    /\ nRx = 2
    /\ nTicks = 0
    /\ btState = "PLAYING"
    /\ nPopped = 1
    /\ ~cmdInProgress

\* C8: while an observer is registered it is called exactly once for each
\* change of the connection state, in the step of the change, with the old
\* and the new state, which differ; it is not called when a report sets the
\* state that is already current.
C8_ObserverOncePerChange ==
    /\ [][stateCb /\ stateCb' =>
            IF btState' # btState
            THEN /\ cbCount' = cbCount + 1
                 /\ cbLast' = <<btState, btState'>>
            ELSE /\ cbCount' = cbCount
                 /\ cbLast' = cbLast]_vars
    /\ [](cbCount > 0 => cbLast[1] # cbLast[2])

\* the observer has seen two changes, the last from PLAYING to PAUSED
C8_Witness == cbCount = 2 /\ cbLast = <<"PLAYING", "PAUSED">>

\* the connection state of each code, by the code plus one
A2dpTable ==
    <<"DISCONNECTED", "DISCONNECTED", "CONNECTING", "CONNECTED_IDLE", "PAUSED",
      "PLAYING">>

PlayTable == <<"CONNECTED_IDLE", "PLAYING", "PAUSED", "PLAYING", "PLAYING">>

\* C9: "+A2DPSTAT=" with the code 0 or 1 sets DISCONNECTED, 2 CONNECTING,
\* 3 CONNECTED_IDLE, 4 PAUSED, 5 PLAYING; "+PLAYSTAT=" with 0 sets
\* CONNECTED_IDLE, 1 PLAYING, 2 PAUSED, 3 or 4 PLAYING; the result does not
\* depend on the state before, and a numeric code outside these ranges
\* leaves the connection state unchanged.
C9_Mapping ==
    [][RxStep =>
          /\ \A k \in 0..9 :
                Head(uart) = <<"+", "A", "2", "D", "P", "S", "T", "A", "T", "=">>
                                 \o <<Digits[k + 1]>> =>
                    btState' = IF k <= 5 THEN A2dpTable[k + 1] ELSE btState
          /\ \A k \in 0..9 :
                Head(uart) = <<"+", "P", "L", "A", "Y", "S", "T", "A", "T", "=">>
                                 \o <<Digits[k + 1]>> =>
                    btState' = IF k <= 4 THEN PlayTable[k + 1] ELSE btState
          /\ Head(uart) \in OutOfRangeLines => btState' = btState]_vars

\* the observer saw the change from PLAYING to CONNECTING, which only the
\* code 2 of "+A2DPSTAT=" makes
C9_Witness == cbCount = 1 /\ cbLast = <<"PLAYING", "CONNECTING">>

\* ------------------------------------------------------------------------
\* Properties of the pulse decoder (checked under SpecDec)
\* ------------------------------------------------------------------------
\* a rising edge that ends a measured low pulse, with the handler attached
PulseStep ==
    lineLow /\ ~lineLow' /\ vw_measuringLow /\ g_dataOutPin >= 0 /\ isrAttached

\* the duration the step recorded in the diagnostic trace
Recorded == rawTrace'[Len(rawTrace')]

\* the decoder after the data bit b was shifted in
BitShifted(b) ==
    /\ vw_capBitPacket' = vw_capBitPacket - 1
    /\ vw_capBusy' = (vw_capBitPacket # 1)
    /\ IF vw_capBit = 1
       THEN /\ vw_capBuffer' =
                  [vw_capBuffer EXCEPT
                       ![vw_capPtr] = ((2 * vw_currentByte) % 256) + b]
            /\ vw_capPtr' = (vw_capPtr + 1) % 24
            /\ vw_capBit' = 8
            /\ vw_currentByte' = 0
       ELSE /\ vw_currentByte' = ((2 * vw_currentByte) % 256) + b
            /\ vw_capBit' = vw_capBit - 1
            /\ UNCHANGED <<vw_capBuffer, vw_capPtr>>

PacketStarted ==
    /\ vw_capBusy'
    /\ vw_capBitPacket' = 32
    /\ vw_capBit' = 8
    /\ vw_currentByte' = 0
    /\ UNCHANGED <<vw_capPtr, vw_capBuffer>>

\* C11 (as the claim states it): inside a packet a low pulse of 3199 us
\* shifts in a zero, and a low pulse of 3200 us is a start marker.
C11_Zero3199 ==
    [][PulseStep =>
          /\ (Recorded = 3199 /\ vw_capBusy /\ vw_capBitPacket # 0) =>
                 BitShifted(0)
          /\ Recorded = 3200 => PacketStarted]_vars

\* C11 (amended): inside a packet a low pulse of 3199 us shifts in a one,
\* and a low pulse of 3200 us is a start marker.
C11_One3199 ==
    [][PulseStep =>
          /\ (Recorded = 3199 /\ vw_capBusy /\ vw_capBitPacket # 0) =>
                 BitShifted(1)
          /\ Recorded = 3200 => PacketStarted]_vars

\* the first bit of a packet came from a pulse of 3199 us and is a one
C11_Witness ==
    /\ rawTrace = <<3199>>
    /\ vw_capBusy
    /\ vw_capBitPacket = 31
    /\ vw_capBit = 7
    /\ vw_currentByte = 1

\* ------------------------------------------------------------------------
\* Properties of the packet scanner (checked under SpecScan)
\* ------------------------------------------------------------------------
\* an iteration of the scanner at a position that four stored bytes follow
ScanStep ==
    /\ g_btnCb
    /\ vw_scanPtr' # vw_scanPtr
    /\ UNCHANGED <<vw_capPtr, vw_capBuffer>>
    /\ (IF vw_capPtr >= vw_scanPtr THEN vw_capPtr - vw_scanPtr
        ELSE 24 - vw_scanPtr + vw_capPtr) >= 4

\* the four bytes at the scan position
AtScan == [k \in 1..4 |-> vw_capBuffer[(vw_scanPtr + k - 1) % 24]]

\* the four bytes are 53 2C code ~code with a code that is a multiple of 4
WellFormed(f) ==
    /\ f[1] = 83
    /\ f[2] = 44
    /\ (f[3] + f[4]) % 256 = 255
    /\ f[3] % 4 = 0

\* the event table
EventTable ==
    (248 :> "NEXT_TRACK") @@ (120 :> "PREV_TRACK") @@ (12 :> "DISC_1")
        @@ (140 :> "DISC_2") @@ (76 :> "DISC_3") @@ (204 :> "DISC_4")
        @@ (44 :> "DISC_5") @@ (172 :> "DISC_6") @@ (160 :> "SCAN_TOGGLE")
        @@ (224 :> "RANDOM_TOGGLE")

\* C12: a well-formed packet that is completely in the ring buffer, at any
\* position, also across the end of the buffer, makes the scanner advance by
\* exactly 4 bytes and call the button callback exactly once when its code
\* is in the event table, and not at all when it is not.
C12_FrameAdvancesFour ==
    [][ScanStep /\ WellFormed(AtScan) =>
          /\ vw_scanPtr' = (vw_scanPtr + 4) % 24
          /\ Len(btnEvents') =
                 Len(btnEvents) + IF AtScan[3] \in DOMAIN EventTable THEN 1 ELSE 0]_vars

\* a packet that lies across the end of the ring buffer (bytes 21, 22, 23
\* and 0) was scanned and its button reported
C12_Witness ==
    /\ vw_scanPtr = 1
    /\ vw_capPtr = 1
    /\ vw_capBuffer[21] = 83
    /\ vw_capBuffer[0] = 7
    /\ btnEvents = <<"NEXT_TRACK">>

\* C13: the event passed to the callback is the event table's entry of the
\* packet's code; the codes 0x14, 0x38 and every other code give no call,
\* and no step other than the scan of a well-formed packet gives one; so
\* the events NEXT_DISC, PREV_DISC, PLAY_PAUSE, STOP and UNKNOWN never occur.
C13_EventTable ==
    /\ [][ScanStep /\ WellFormed(AtScan) =>
            btnEvents' = IF AtScan[3] \in DOMAIN EventTable
                         THEN Append(btnEvents, EventTable[AtScan[3]])
                         ELSE btnEvents]_vars
    /\ [][btnEvents' # btnEvents => ScanStep /\ WellFormed(AtScan)]_vars
    /\ [](\A k \in 1..Len(btnEvents) :
             btnEvents[k] \notin
                 {"NEXT_DISC", "PREV_DISC", "PLAY_PAUSE", "STOP", "UNKNOWN"})

\* the packet 53 2C AC 53 was scanned at the start of the buffer and reported
\* as DISC_6
C13_Witness ==
    /\ vw_scanPtr = 4
    /\ vw_capBuffer[2] = 172
    /\ btnEvents = <<"DISC_6">>

\* C14: when the four bytes at the scan position are not a well-formed
\* packet the scanner advances by exactly one byte and calls no callback.
C14_ResyncByOne ==
    [][ScanStep /\ ~WellFormed(AtScan) =>
          /\ vw_scanPtr' = (vw_scanPtr + 1) % 24
          /\ btnEvents' = btnEvents]_vars

\* the packet 53 2C F9 06, whose code is not a multiple of 4, was passed
\* over byte by byte without a call
C14_Witness ==
    /\ vw_scanPtr = 4
    /\ vw_capPtr = 4
    /\ vw_capBuffer[2] = 249
    /\ vw_capBuffer[3] = 6
    /\ btnEvents = <<>>

\* ------------------------------------------------------------------------
\* Properties of the changer emulator (checked under SpecCdc)
\* ------------------------------------------------------------------------
\* a pass of cdc_loop, and a pass that is a tick of the 50 ms frame clock
CdcPass == now' # now

CdcTick == CdcPass /\ now' - g_prevMs >= 50

\* a call of one of the setters
SetterCall == nCdcCalls' # nCdcCalls

\* the phase of the k-th frame after start-up
PhaseOfFrame(k) ==
    IF k <= 20 THEN "ST_IDLE_THEN_PLAY"
    ELSE IF k <= 44 THEN "ST_INIT_PLAY"
    ELSE IF k <= 54 THEN "ST_PLAY_LEAD_IN"
    ELSE "ST_PLAY"

\* the phase a frame belongs to, read from its bytes
FrameKind(f) ==
    IF f[1] = 116 /\ f[8] = 124 THEN "ST_IDLE_THEN_PLAY"
    ELSE IF f[7] = 239 \/ (f[7] = 255 /\ f[2] \in 41..46) THEN "ST_INIT_PLAY"
    ELSE IF f[7] = 174 \/ (f[7] = 255 /\ f[2] \in 33..38) THEN "ST_PLAY_LEAD_IN"
    ELSE IF f[7] = 207 THEN "ST_PLAY"
    ELSE "none"

PhaseRank(s) ==
    IF s = "ST_IDLE_THEN_PLAY" THEN 0
    ELSE IF s = "ST_INIT_PLAY" THEN 1
    ELSE IF s = "ST_PLAY_LEAD_IN" THEN 2
    ELSE 3

\* C15: every tick sends exactly one frame of 8 bytes and no other step sends
\* one; frames 1..20 are IdleThenPlay frames, 21..44 InitPlay frames, 45..54
\* PlayLeadIn frames and all later ones Play frames; the phase never moves
\* to an earlier one.
C15_PhaseSequence ==
    /\ [][CdcTick => nFrames' = nFrames + 1]_vars
    /\ [][nFrames' # nFrames =>
            /\ CdcTick
            /\ nFrames' = nFrames + 1
            /\ Len(spiOut') = 8
            /\ FrameKind(spiOut') = PhaseOfFrame(nFrames')]_vars
    /\ [][PhaseRank(cdcState') >= PhaseRank(cdcState)]_vars
    /\ [](nFrames > 0 => cdcState = PhaseOfFrame(nFrames + 1))

\* the 54 frames of the first three phases and two Play frames have gone out
C15_Witness ==
    /\ nFrames = 56
    /\ cdcState = "ST_PLAY"
    /\ FrameKind(spiOut) = "ST_PLAY"

\* a tick of the Play phase
PlayTick == CdcTick /\ initStarted /\ cdcState = "ST_PLAY"

\* BCD(v) = 16 * (v div 10) + (v mod 10)
BCD(v) == 16 * (v \div 10) + (v % 10)

\* the frame of a Play tick has the Play format
C16_PlayFormat ==
    [][PlayTick /\ g_status.disc \in 1..6 /\ g_status.track \in 1..99 =>
          spiOut' = <<52, 191 - g_status.disc, 255 - BCD(g_status.track),
                      255 - BCD(g_playMinutes'), 255 - BCD(g_playSeconds'),
                      g_modeByte, 207, 60>>]_vars

\* disc 1, track 5, 3:45, scan and random off give 34 BE FA FC BA 00 CF 3C
C16_Scenario ==
    [][/\ PlayTick
       /\ g_status.disc = 1 /\ g_status.track = 5
       /\ g_playMinutes' = 3 /\ g_playSeconds' = 45
       /\ ~g_status.scanOn /\ ~g_status.randomOn
       => spiOut' = <<52, 190, 250, 252, 186, 0, 207, 60>>]_vars

\* C16: for disc 1..6, track 1..99, minutes 0..99 and seconds 0..59 the frame
\* of a Play tick is 34, BF - disc, FF - BCD(track), FF - BCD(minutes),
\* FF - BCD(seconds), the mode byte, CF, 3C; for disc 1, track 5, 3:45 with
\* scan and random off it is 34 BE FA FC BA 00 CF 3C.
C16_PlayFrame == C16_PlayFormat /\ C16_Scenario

\* the mode byte of the flags
ModeTable(scanOn, randomOn) ==
    IF scanOn /\ randomOn THEN 212
    ELSE IF scanOn THEN 208
    ELSE IF randomOn THEN 4
    ELSE 0

\* C17: after any calls of the setters, byte 5 of every Play frame is the
\* table's entry of the current flags: 00 for both off, D0 for scan only,
\* 04 for random only, D4 for both.
C17_ModeByte ==
    [][PlayTick =>
          spiOut'[6] = ModeTable(g_status.scanOn, g_status.randomOn)]_vars

\* C18: a call of cdc_setDiscTrack sets the displayed time to 0:00 and leaves
\* the phase and its counter as they are; no setter changes the phase.
C18_SettersKeepPhase ==
    /\ [][cdc_setDiscTrack =>
            /\ g_playMinutes' = 0
            /\ g_playSeconds' = 0
            /\ cdcState' = cdcState
            /\ stateCounter' = stateCounter
            /\ initStarted' = initStarted]_vars
    /\ [][SetterCall => /\ cdcState' = cdcState
                        /\ stateCounter' = stateCounter
                        /\ initStarted' = initStarted]_vars

\* in the Play phase, before any self-increment, a time that cdc_setPlayTime
\* had set was put back to 0:00 by cdc_setDiscTrack(6, 99)
C18_Witness ==
    /\ btTimeSet
    /\ g_status.disc = 6
    /\ g_status.track = 99
    /\ g_playMinutes = 0
    /\ g_playSeconds = 0
    /\ lastSecond = 0
    /\ cdcState = "ST_PLAY"

\* the emulator advances the displayed time
SelfIncStep ==
    /\ CdcPass
    /\ <<g_playMinutes', g_playSeconds'>> # <<g_playMinutes, g_playSeconds>>

\* C19: the emulator advances the displayed time, by one second, only on a
\* pass in the Play phase, with play state PLAYING, at least 1000 ms after the
\* previous self-increment and with no call of cdc_setPlayTime in the last
\* 3000 ms.
C19_SelfIncrement ==
    [][SelfIncStep =>
          /\ cdcState = "ST_PLAY"
          /\ g_status.state = "PLAYING"
          /\ now' - lastSecond >= 1000
          /\ ~(btTimeSet /\ now' - g_lastBtTimeUpdate < 3000)
          /\ (60 * g_playMinutes' + g_playSeconds') =
                 (60 * g_playMinutes + g_playSeconds + 1) % 6000]_vars

\* ------------------------------------------------------------------------
\* Pause and resume of the decoder (checked under SpecPause)
\* ------------------------------------------------------------------------
\* C20: after cdc_pause(true) and cdc_pause(false) the decoder takes no data
\* bit before it has decoded a new start marker: every bit that is shifted
\* in belongs to a packet whose start marker came after the handler was
\* attached last.
C20_ResumeNeedsStart == [][nBits' > nBits => freshStart]_vars


\* ------------------------------------------------------------------------
\* C21, C22: the tasks and the mutexes
\* ------------------------------------------------------------------------
\* a task is inside an operation on the command queue
LoopInDriver == loopPc \in {"bt_call", "bt_store"}
WebInDriver == webPc = "store"
BtTaskInDriver == pc # "idle"

\* C21: no two tasks are inside operations on the command queue at the same
\* time, and once the enqueuing tasks have returned the queue holds, in order,
\* every accepted command that was not yet removed (none lost or overwritten)
C21_MutualExclusion ==
    /\ ~(LoopInDriver /\ WebInDriver)
    /\ ~(LoopInDriver /\ BtTaskInDriver)
    /\ ~(WebInDriver /\ BtTaskInDriver)
    /\ (loopPc \in {"idle", "bt_give"} /\ webPc = "idle")
          => QueueSeq = SubSeq(accepted, nPopped + 1, Len(accepted))

C23_MalformedIgnored ==
    [][RxStep /\ Head(uart) \in MalformedLines =>
          UNCHANGED <<btState, devStat, g_trackInfo, cbCount, cmdQueue,
                      queueHead, queueTail>>]_vars


\* ------------------------------------------------------------------------
\* C24: the range of the status record
\* ------------------------------------------------------------------------
\* C24: once the emulator is initialised, whatever setters are called with
\* whatever arguments, the status record it holds (the value cdc_getStatus
\* returns) has disc in 1..6 and track in 1..99.
C24_StatusInRange ==
    g_dataOutPin >= 0 => g_status.disc \in 1..6 /\ g_status.track \in 1..99


\* ------------------------------------------------------------------------
\* C25: lines longer than 250 characters
\* ------------------------------------------------------------------------
\* a byte is read by the line reader
RxByte == wire # <<>> /\ wire' = Tail(wire)

\* C25: nothing of a line longer than 250 characters is classified: the LF
\* that ends it closes no command and updates no state; a CR changes nothing
\* and an LF leaves the line buffer empty.
C25_OverlongDropped ==
    /\ [][RxByte /\ Head(wire) = "\n" /\ rxOverflow =>
             UNCHANGED <<cmdInProgress, queueHead, btState, devStat,
                         g_trackInfo, cbCount>>]_vars
    /\ [][RxByte /\ Head(wire) = "\r" =>
             UNCHANGED <<rxLine, handleLineVars>>]_vars
    /\ [][RxByte /\ Head(wire) = "\n" => rxLine' = <<>>]_vars


\* ------------------------------------------------------------------------
\* C26: bits, bytes and packets of the pulse decoder
\* ------------------------------------------------------------------------
\* the decoder's bit, byte and packet state and the ring buffer
capState ==
    << vw_capBit, vw_capBitPacket, vw_currentByte, vw_capPtr, vw_capBuffer,
       vw_capBusy >>

\* C26: after a start marker data bits are shifted in most significant bit
\* first, so that the bytes of the packet sent are the bytes pushed; a byte is
\* pushed exactly at the 8th, 16th, 24th and 32nd data bit after the marker;
\* data pulses after the 32nd bit or before the first marker change nothing;
\* a start marker stores nothing and discards the partial byte.
C26_PacketFraming ==
    /\ [][vw_capPtr' # vw_capPtr =>
             /\ PulseStep /\ Recorded < VW_START_THRESHOLD
             /\ vw_capBusy /\ vw_capBitPacket \in {25, 17, 9, 1}
             /\ vw_capPtr' = (vw_capPtr + 1) % VW_CAPBUFFER_SIZE
             /\ vw_capBuffer'[vw_capPtr] =
                    RefPacket[((VW_PKTSIZE - vw_capBitPacket) \div 8) + 1]]_vars
    /\ [][(PulseStep /\ Recorded < VW_START_THRESHOLD /\ vw_capBusy
                /\ vw_capBitPacket \in {25, 17, 9, 1}) =>
             vw_capPtr' # vw_capPtr]_vars
    /\ [][(PulseStep /\ Recorded < VW_START_THRESHOLD
                /\ (~vw_capBusy \/ vw_capBitPacket = 0)) =>
             UNCHANGED capState]_vars
    /\ [][(PulseStep /\ Recorded >= VW_START_THRESHOLD) => PacketStarted]_vars
    /\ [](vw_capBusy => vw_capBit = ((vw_capBitPacket - 1) % 8) + 1)
    /\ [](vw_capBusy <=> vw_capBitPacket > 0)

\* the four bytes of a packet were pushed and a further zero bit, sent after
\* the 32nd bit, was measured and changed nothing
C26_Witness ==
    /\ nBits = VW_PKTSIZE
    /\ vw_capPtr = 4
    /\ \A i \in 0..3 : vw_capBuffer[i] = RefPacket[i + 1]
    /\ ~vw_capBusy /\ vw_capBitPacket = 0
    /\ rawTrace = <<VW_LOW_THRESHOLD>>


\* ------------------------------------------------------------------------
\* C27, C28: the capacity of the ring buffer
\* ------------------------------------------------------------------------
\* the radio has sent n whole packets and nothing more
SentPackets(n) == nPackets = n /\ radioPkt = <<>> /\ ~vw_capBusy

\* the scanner has not moved since cdc_init
NotYetScanned == g_btnCb /\ vw_scanPtr = 0 /\ btnEvents = <<>>

\* C27: the ring buffer holds 6 packets: when the scanner has caught up
\* after 6 button packets were sent, all 6 events were delivered.
C27_SixPackets ==
    (SentPackets(6) /\ vw_scanPtr = vw_capPtr) => Len(btnEvents) = 6

\* C28: when 7 packets were decoded before the scanner's first pass, only
\* the oldest bytes are lost: the pass still has the 5 most recent whole
\* packets before it.
C28_OverrunKeepsRecent ==
    (SentPackets(7) /\ NotYetScanned) => Available >= 20


\* ------------------------------------------------------------------------
\* C29: the scanner against the interrupt handler
\* ------------------------------------------------------------------------
\* C29: with the interrupt handler running between any two steps of the
\* scanner and no overrun, every slot the scanner reads lies before the
\* write index: the slot of byte1 once the loop test has passed, and the
\* slots of byte2, byte3 and byte4 when the scanner goes on to read them.
C29_NoReadAhead ==
    /\ scanPc \in {"cmp", "avail", "read"} => Available >= 1
    /\ scanPc = "read" => Available >= 4


\* ------------------------------------------------------------------------
\* C30: the frames of InitPlay
\* ------------------------------------------------------------------------
\* a frame goes out while the emulator is in InitPlay
InitPlayFrame == nFrames' = nFrames + 1 /\ initStarted /\ cdcState = "ST_INIT_PLAY"

\* frames of InitPlay sent before this one
InitPlayIndex == stateCounter + INIT_PLAY_COUNT

\* C30: InitPlay is entered with the counter at -24 and the indicator at
\* 0x2E and lasts 24 frames; the frames with an even index (0, 2, .. 22) are
\* announce frames, the others normal frames; the announce frame of index 2j
\* carries in byte 1 the indicator 0x2E - (j mod 6), so the 12 announce
\* frames carry 2E 2D 2C 2B 2A 29 twice, and the indicator stays within
\* 0x29..0x2E.
C30_InitPlayFrames ==
    /\ [][(cdcState # "ST_INIT_PLAY" /\ cdcState' = "ST_INIT_PLAY") =>
             stateCounter' = 0 - 24 /\ g_discLoad' = 46]_vars
    /\ [][InitPlayFrame =>
             /\ InitPlayIndex \in 0..23
             /\ IF InitPlayIndex % 2 = 0
                THEN /\ spiOut'[6] = 183 /\ spiOut'[7] = 255
                     /\ spiOut'[2] = 46 - ((InitPlayIndex \div 2) % 6)
                ELSE spiOut'[7] = 239
             /\ IF InitPlayIndex = 23
                THEN cdcState' = "ST_PLAY_LEAD_IN"
                ELSE cdcState' = "ST_INIT_PLAY"
                         /\ stateCounter' = stateCounter + 1]_vars
    /\ [](g_discLoad \in 41..46)

\* the last announce frame of InitPlay, the 12th, has gone out with the
\* indicator 0x29, which then wrapped to 0x2E
C30_Witness ==
    /\ cdcState = "ST_INIT_PLAY"
    /\ stateCounter = 0 - 1
    /\ nFrames = 43
    /\ spiOut[2] = 41 /\ spiOut[6] = 183
    /\ g_discLoad = 46


\* ------------------------------------------------------------------------
\* C31: the frames of PlayLeadIn
\* ------------------------------------------------------------------------
\* a frame goes out while the emulator is in PlayLeadIn
LeadInFrame ==
    nFrames' = nFrames + 1 /\ initStarted /\ cdcState = "ST_PLAY_LEAD_IN"

\* frames of PlayLeadIn sent before this one
LeadInIndex == stateCounter + LEAD_IN_COUNT

\* C31: PlayLeadIn is entered with the counter at -10 and lasts 10 frames;
\* the frames of even index (0, 2, .. 8) are announce frames with
\* (disc AND 0x0F) OR 0x20 in byte 1, the others normal frames with 0xAE in
\* byte 6 (InitPlay's normal frames have 0xEF there); with the 10th frame
\* the phase becomes Play.
C31_LeadInFrames ==
    /\ [][(cdcState # "ST_PLAY_LEAD_IN" /\ cdcState' = "ST_PLAY_LEAD_IN") =>
             stateCounter' = 0 - 10]_vars
    /\ [][LeadInFrame =>
             /\ LeadInIndex \in 0..9
             /\ IF LeadInIndex % 2 = 0
                THEN /\ spiOut'[6] = 183 /\ spiOut'[7] = 255
                     /\ spiOut'[2] = (ClampDisc(g_status.disc) % 16) + 32
                ELSE spiOut'[7] = 174 /\ spiOut'[7] # 239
             /\ IF LeadInIndex = 9
                THEN cdcState' = "ST_PLAY"
                ELSE cdcState' = "ST_PLAY_LEAD_IN"
                         /\ stateCounter' = stateCounter + 1]_vars

\* the 10th frame of PlayLeadIn, a normal frame, has gone out and the
\* emulator plays
C31_Witness ==
    /\ cdcState = "ST_PLAY"
    /\ nFrames = 54
    /\ nPlayTicks = 0
    /\ spiOut[7] = 174


\* ------------------------------------------------------------------------
\* C32, C33: track progress and track metadata
\* ------------------------------------------------------------------------
\* C32: a report +TRACKSTAT=state,elapsed,total with elapsed E sets
\* elapsedSec = E, totalSec = total and valid, and the displayed time to
\* min(E div 60, 99) minutes and E mod 60 seconds, for every E; a payload
\* with fewer than three fields changes neither.
C32_TrackStatTime ==
    [][RxStep /\ startsWith(Head(uart), P_TRACKSTAT) =>
          LET params == substring(Head(uart), 11)
              comma1 == indexOf(params, ",", 0)
              comma2 == indexOf(params, ",", comma1 + 1)
              E == toInt(substring2(params, comma1 + 1, comma2))
              total == toInt(substring(params, comma2 + 1))
          IN  IF comma1 > 0 /\ comma2 > comma1
              THEN /\ g_trackInfo'.elapsedSec = E
                   /\ g_trackInfo'.totalSec = total
                   /\ g_trackInfo'.valid
                   /\ g_playMinutes' = Min(E \div 60, 99)
                   /\ g_playSeconds' = E % 60
              ELSE UNCHANGED <<g_trackInfo, g_playMinutes, g_playSeconds>>]_vars

\* the fields of a track-metadata report and what the claim expects of it
InfoParams == substring(Head(uart), 11)
InfoComma1 == indexOf(InfoParams, ",", 0)
InfoComma2 == indexOf(InfoParams, ",", InfoComma1 + 1)
InfoComma3 == indexOf(InfoParams, ",", InfoComma2 + 1)
InfoReplaced ==
    /\ g_trackInfo'.title = trim(substring2(InfoParams, 0, InfoComma1))
    /\ g_trackInfo'.artist =
           IF InfoComma2 > InfoComma1
           THEN trim(substring2(InfoParams, InfoComma1 + 1, InfoComma2))
           ELSE trim(substring(InfoParams, InfoComma1 + 1))
    /\ g_trackInfo'.album =
           IF InfoComma2 > InfoComma1
           THEN trim(substring(InfoParams, InfoComma2 + 1))
           ELSE <<>>
    /\ g_trackInfo'.valid

\* the payload "Song Title , Artist Name" gives "Song Title", "Artist Name"
\* and the empty album
SongStored(info) ==
    /\ info.title = <<"S", "o", "n", "g", " ", "T", "i", "t", "l", "e">>
    /\ info.artist = <<"A", "r", "t", "i", "s", "t", " ", "N", "a", "m", "e">>
    /\ info.album = <<>>
    /\ info.valid

\* C33 (as the claim states it): a track-metadata report with 2 or 3
\* comma-separated fields replaces title, artist and album with the trimmed
\* fields, the album being empty when there is no third field, and sets
\* valid.
C33_TrackInfoFields ==
    [][(RxStep /\ startsWith(Head(uart), P_TRACKINFO)
            /\ InfoComma1 >= 0
            /\ (InfoComma2 < 0 \/ InfoComma3 < 0)) => InfoReplaced]_vars

\* C33 (amended): the same for a report whose first comma is not the first
\* character of the payload; "Song Title , Artist Name" gives the title
\* "Song Title", the artist "Artist Name" and the empty album.
C33_TrackInfoTitled ==
    /\ [][(RxStep /\ startsWith(Head(uart), P_TRACKINFO)
             /\ InfoComma1 > 0
             /\ (InfoComma2 < 0 \/ InfoComma3 < 0)) => InfoReplaced]_vars
    /\ [][(RxStep /\ Head(uart) = P_TRACKINFO \o SongPayload) =>
             SongStored(g_trackInfo')]_vars

\* the report "+TRACKINFO=Song Title , Artist Name" was received
C33_Witness == SongStored(g_trackInfo) /\ nRx >= 1 /\ pc = "rx"

\* ------------------------------------------------------------------------
\* C34: the background poller
\* ------------------------------------------------------------------------
\* the last part of a pass of bt1036_loop enqueues
PollEnqueue == pc = "poll" /\ nPushCalls' # nPushCalls

FactoryCommands ==
    <<"AT+NAME=VW_BT1036,0", "AT+LENAME=VW_BT1036,0", "AT+MICGAIN=8",
      "AT+SPKVOL=12,12", "AT+TXPOWER=10", "AT+PROFILE=168",
      "AT+AUTOCONN=168", "AT+SSP=2", "AT+COD=240404", "AT+SEP=0",
      "AT+HFPSR=16000", "AT+HFPCFG=3", "AT+AVRCPCFG=3">>

\* queuePush of each element of cmds, first to last
RECURSIVE queuePushAll(_, _)
queuePushAll(q, cmds) ==
    IF cmds = <<>> THEN q
    ELSE queuePushAll(queuePush(q, Head(cmds)), Tail(cmds))

\* calls of queuePush in a run with the factory setup
MaxSetupPush == 20

bt1036_runFactorySetup ==
    /\ bt /\ pc = "idle"
    /\ nPushCalls + Len(FactoryCommands) <= MaxSetupPush
    /\ SetQueue(queuePushAll(Queue, FactoryCommands))
    /\ EnqueueFrame

\* the start-up commands, the factory setup, the loop, the clock and a
\* module that answers with terminal responses
NextSetup ==
    \/ bt1036_init
    \/ bt1036_runFactorySetup
    \/ bt1036_loop_rx
    \/ bt1036_loop_timeout
    \/ bt1036_loop_send
    \/ bt1036_loop_poll
    \/ UartRxQueue
    \/ Tick

SpecSetup == Init /\ [][NextSetup]_vars

\* a call of bt1036_runFactorySetup
FactorySetupStep == nPushCalls' = nPushCalls + Len(FactoryCommands)

\* C35: a call of bt1036_runFactorySetup with an empty queue and no command
\* in flight leaves all 13 configuration commands queued, in the order of
\* the calls.
C35_AllThirteenQueued ==
    [][(FactorySetupStep /\ QueueSeq = <<>> /\ ~cmdInProgress)
          => QueueSeq' = FactoryCommands]_vars

\* ------------------------------------------------------------------------
\* C36: the in-flight command is the head of the queue
\* ------------------------------------------------------------------------
\* the step is given a terminal response or finds the in-flight command
\* timed out
ClosingStep ==
    \/ pc' = "rx" /\ uart # <<>> /\ Head(uart) # EmptyStr
                  /\ IsTerminal(trim(Head(uart)))
    \/ pc' = "send" /\ TimedOut

\* C36: while a command is in flight the queue is non-empty and its head is
\* the command last written to the module; the head moves only by one, only
\* in a step that closes the in-flight command on a terminal response or a
\* timeout, and the entry it leaves is that command.
C36_HeadInFlight ==
    /\ [](cmdInProgress =>
             /\ QLen >= 1
             /\ serialOut # <<>>
             /\ QueueSeq[1] = serialOut[Len(serialOut)])
    /\ [][queueHead' # queueHead =>
             /\ cmdInProgress /\ ~cmdInProgress'
             /\ ClosingStep
             /\ queueHead' = (queueHead + 1) % CMD_QUEUE_SIZE
             /\ queueTail' = queueTail
             /\ cmdQueue[queueHead] = serialOut[Len(serialOut)]]_vars

\* a command was closed by a response, another by a timeout, and a third
\* is in flight at the head of a queue that holds more
C36_Witness ==
    /\ cmdInProgress
    /\ nPopped = 2
    /\ nRx = 1
    /\ QLen >= 2
    /\ QueueSeq[1] = "AT+ADDR"

\* ------------------------------------------------------------------------
\* C37: a terminal response closes whatever is in flight
\* ------------------------------------------------------------------------
\* the step handles a terminal response while a command is in flight
TerminalArrives ==
    /\ pc' = "rx" /\ uart # <<>> /\ Head(uart) # EmptyStr
    /\ IsTerminal(trim(Head(uart)))
    /\ cmdInProgress

\* C37: a terminal response closes and dequeues the command that is in
\* flight when it is handled, whichever command that is and however long
\* ago it was sent, and the send step that follows dispatches the next
\* queued command.
C37_ClosesCurrent ==
    /\ [][TerminalArrives =>
             /\ ~cmdInProgress'
             /\ QueueSeq' = Tail(QueueSeq)
             /\ nPopped' = nPopped + 1]_vars
    /\ [][(pc = "send" /\ ~cmdInProgress /\ QueueSeq # <<>>) =>
             /\ cmdInProgress'
             /\ cmdTimestamp' = now
             /\ serialOut' = Append(serialOut, QueueSeq[1])]_vars

\* AT timed out, AT+VER was dispatched and the only response of the run,
\* handled within the timeout of AT+VER, has just closed it: AT+ADDR is
\* next
C37_Witness ==
    /\ pc = "rx" /\ uart = <<>> /\ nRx = 1
    /\ ~cmdInProgress
    /\ nPopped = 2
    /\ serialOut = <<"AT", "AT+VER">>
    /\ QueueSeq = <<"AT+ADDR">>
    /\ Sub32(now, cmdTimestamp) <= CMD_TIMEOUT_MS

\* ------------------------------------------------------------------------
\* C38: every accepted command is dispatched and removed
\* ------------------------------------------------------------------------
\* ticks of the clock in a run checked for progress
MaxLiveTicks == 10

\* the loop has something to do at the present time
LoopDue == uart # <<>> \/ TimedOut \/ CanSend \/ PollDue

\* bt_task calls bt1036_loop every 20 ms: by the time the clock has moved by
\* a tick the loop has done what was due
TickLive == ~LoopDue /\ TickUpTo(MaxLiveTicks)

\* ticks after which a command dispatched now has timed out
TimeoutTicks == (CMD_TIMEOUT_MS \div TickMs) + 1

NextLive ==
    \/ bt1036_init
    \/ bt1036_loop_rx
    \/ bt1036_loop_timeout
    \/ bt1036_loop_send
    \/ bt1036_loop_poll
    \/ UartRxQueue
    \/ TickLive

\* bt_task calls bt1036_loop for ever, so a step of the loop that stays
\* enabled is taken; millis() advances whatever the loop is doing
SpecLive ==
    /\ Init /\ [][NextLive]_vars
    /\ WF_vars(bt1036_loop_rx)
    /\ WF_vars(bt1036_loop_timeout)
    /\ WF_vars(bt1036_loop_send)
    /\ WF_vars(bt1036_loop_poll)
    /\ SF_vars(TickLive)

\* the n-th accepted command has been written to the module
Dispatched(n) == Len(serialOut) >= n

\* the n-th accepted command has left the queue
Removed(n) == nPopped >= n

\* accepted commands the progress property is stated for
MaxLiveAccepted == 5

\* C38: with the loop running and the clock advancing, a command in flight
\* is eventually closed, and every accepted command is eventually
\* dispatched and eventually removed from the queue, whether or not the
\* module answers; stated for the commands whose timeouts fit in the time
\* the run has left.
C38_Progress ==
    /\ (cmdInProgress /\ nTicks + TimeoutTicks <= MaxLiveTicks)
          ~> ~cmdInProgress
    /\ \A n \in 1..MaxLiveAccepted :
          (/\ Len(accepted) >= n
           /\ nTicks + TimeoutTicks * (n - nPopped) <= MaxLiveTicks)
             ~> (Dispatched(n) /\ Removed(n))

\* the start-up commands were all closed by the timeout, with no line from
\* the module, before the clock of the run reached its bound
C38_Witness ==
    /\ nRx = 0
    /\ nPopped = 3
    /\ ~cmdInProgress
    /\ QueueSeq = <<>>
    /\ nTicks < MaxLiveTicks

\* ------------------------------------------------------------------------
\* C39: the range of the displayed time (checked under SpecCdc)
\* ------------------------------------------------------------------------
\* a setter leaves a displayed time other than 00:00: cdc_setPlayTime (the
\* only other setter that writes the time, cdc_setDiscTrack, resets it)
SetPlayTimeStep ==
    /\ now' = now
    /\ <<g_playMinutes', g_playSeconds'>> # <<g_playMinutes, g_playSeconds>>
    /\ <<g_playMinutes', g_playSeconds'>> # <<0, 0>>

\* C39: the displayed time always has minutes in 0..99 and seconds in
\* 0..59; a self-increment at seconds 59 sets the seconds to 0 and adds a
\* minute, at 99:59 it wraps to 00:00, otherwise it adds a second; and
\* cdc_setPlayTime stores its arguments with the minutes clamped to 99 and
\* the seconds to 59.
C39_TimeInRange ==
    /\ [](g_playMinutes \in 0..99 /\ g_playSeconds \in 0..59)
    /\ [][SelfIncStep =>
             IF g_playSeconds = 59
             THEN /\ g_playSeconds' = 0
                  /\ g_playMinutes' = IF g_playMinutes = 99 THEN 0
                                      ELSE g_playMinutes + 1
             ELSE /\ g_playSeconds' = g_playSeconds + 1
                  /\ g_playMinutes' = g_playMinutes]_vars
    /\ [][SetPlayTimeStep =>
             \E a \in PlayTimeArgs :
                /\ g_playMinutes' = Min(a[1], 99)
                /\ g_playSeconds' = Min(a[2], 59)]_vars

\* cdc_setPlayTime(100, 60) left 99:59 and a self-increment in the Play
\* phase has just wrapped it to 00:00 (cdc_setDiscTrack was never called)
C39_Witness ==
    /\ cdcState = "ST_PLAY"
    /\ btTimeSet
    /\ g_status.track = 1
    /\ g_playMinutes = 0 /\ g_playSeconds = 0
    /\ lastSecond = now
    /\ nPlayTicks >= 1

\* ------------------------------------------------------------------------
\* C40: disc and track of the emitted frames (checked under SpecCdc)
\* ------------------------------------------------------------------------
\* cdc_loop sends a frame
FrameSent == nFrames' = nFrames + 1

\* the frame announces a disc (byte 6 is 0xFF)
IsAnnounceFrame(f) == f[7] = 255

\* the frame was sent in the Play phase
IsPlayFrame(f) == f[1] = 52 /\ f[8] = 60 /\ cdcState = "ST_PLAY"

\* C40: whatever cdc_setDiscTrack was given, byte 1 of every idle, normal
\* and Play frame is 0xBF minus the disc clamped to 1..6, so within
\* 0xB9..0xBE, and the track byte of a Play frame is 0xFF minus the BCD of
\* the track clamped to 1..99.
C40_ClampedDiscTrack ==
    [][FrameSent =>
          LET f == spiOut'
              d == g_status.disc
              t == g_status.track
              track == IF t < 1 THEN 1 ELSE IF t > 99 THEN 99 ELSE t
          IN  /\ ~IsAnnounceFrame(f) =>
                    /\ f[2] \in 185..190
                    /\ f[2] = 191 - (IF d < 1 THEN 1 ELSE IF d > 6 THEN 6 ELSE d)
              /\ IsPlayFrame(f) =>
                    /\ ~IsAnnounceFrame(f)
                    /\ track \in 1..99
                    /\ f[3] = 255 - (((track \div 10) * 16) + (track % 10))]_vars

\* the only setter call of the run was cdc_setDiscTrack(7, 100) and a Play
\* frame went out after it: disc 6 (0xB9), track 99 (0xFF - 0x99)
C40_Witness ==
    /\ g_status.disc = 7 /\ g_status.track = 100
    /\ nCdcCalls = 1
    /\ cdcState = "ST_PLAY" /\ nPlayTicks >= 1
    /\ spiOut # <<>>
    /\ spiOut[1] = 52 /\ spiOut[7] = 207
    /\ spiOut[2] = 185 /\ spiOut[3] = 102

====
